---- MODULE Spec2Model ----
(***************************************************************************)
(* A model of fontra_glyphs.backend.GlyphsBackend: the raw glyph store     *)
(* with its lazy expansion cache, the read and write directions of the     *)
(* location/layer reconciliation, the kerning adapter and the write lock.  *)
(*                                                                         *)
(* Python strings are TLA+ strings (Len, SubSeq and \o work on them),      *)
(* Python dicts are functions, Python lists are sequences.                 *)
(***************************************************************************)
EXTENDS Integers, Sequences, FiniteSets, TLC

VARIABLES
    glyphMap,           \* self.glyphMap: glyph name -> code points
    glyphNameToIndex,   \* self.glyphNameToIndex: glyph name -> index (0-based)
    rawGlyphsData,      \* self.rawGlyphsData: list of raw glyph records
    gsGlyphs,           \* self.gsFont.glyphs: list of GSGlyph (placeholders until parsed)
    parsedGlyphNames,   \* self.parsedGlyphNames
    fileGlyphs,         \* the glyph records of the file on disk (gsFilePath)
    format_version,     \* self.gsFont.format_version: 2 or 3
    gsKerning,          \* self.gsFont.kerning / kerningVertical, by kerning attribute
    kerningGroups,      \* self.kerningGroups: side -> group name -> glyph names
    fileKerning,        \* the kerning of the font as the file on disk holds it
    gsFeatures,         \* the feature code of self.gsFont (prefixes, features, classes)
    writeLock,          \* self._writeLock: the task holding it, or NoTask
    tasks,              \* the coroutines in flight: task id -> its frame
    last,               \* the call that returned last: its name, its count and its result
    held                \* the caller's own variables: the glyph it read and keeps

vars == <<glyphMap, glyphNameToIndex, rawGlyphsData, gsGlyphs, parsedGlyphNames,
          fileGlyphs, format_version, gsKerning, kerningGroups, fileKerning, gsFeatures,
          writeLock, tasks, last, held>>

storeVars == <<glyphMap, glyphNameToIndex, rawGlyphsData, gsGlyphs, parsedGlyphNames,
               fileGlyphs>>
fontVars == <<format_version, gsKerning, kerningGroups, fileKerning, gsFeatures>>

(***************************************************************************)
(* Python values                                                           *)
(***************************************************************************)
\* Python's None where a string is expected
None == "<None>"

\* the empty dict
EmptyDict == <<>>

\* str(x) of a string or None, as an f-string formats it
Fmt(s) == IF s = None THEN "None" ELSE s

\* bool(s) of a string or None
Truthy(s) == s # None /\ s # ""

\* d.get(k, default)
Get(d, k, default) == IF k \in DOMAIN d THEN d[k] ELSE default

\* {**a, **b} and a | b: the entries of b win
Merge(a, b) == b @@ a

\* d without the key k
DelKey(d, k) == [x \in (DOMAIN d) \ {k} |-> d[x]]

\* d with d[k] = v
SetKey(d, k, v) == (k :> v) @@ d

\* s.startswith(p)
StartsWith(s, p) == Len(s) >= Len(p) /\ SubSeq(s, 1, Len(p)) = p

\* s.endswith(p)
EndsWith(s, p) == Len(s) >= Len(p) /\ SubSeq(s, Len(s) - Len(p) + 1, Len(s)) = p

\* the positions at which sep occurs in s
FindAll(s, sep) == {i \in 1..(Len(s) - Len(sep) + 1) : SubSeq(s, i, i + Len(sep) - 1) = sep}

\* sep in s
Contains(s, sep) == FindAll(s, sep) # {}

Min(S) == CHOOSE x \in S : \A y \in S : x <= y

\* s.split(sep, 1) of a string that contains sep: <<before, after>>
Split1(s, sep) ==
    LET i == Min(FindAll(s, sep))
    IN  <<SubSeq(s, 1, i - 1), SubSeq(s, i + Len(sep), Len(s))>>

\* the elements of a sequence
Range(s) == {s[i] : i \in DOMAIN s}

\* the characters the model's strings are made of, in code-point order
Alphabet == " #()+,-./0123456789:<>ABCDEFGHIJKLMNOPQRSTUVWXYZ^_abcdefghijklmnopqrstuvwxyz{|}~"

\* ord(c) of a one-character string, up to an order-preserving renumbering
Ord(c) == Min(FindAll(Alphabet, c))

\* a < b on strings: Python compares them code point by code point
RECURSIVE StrLess(_, _)
StrLess(a, b) ==
    IF b = "" THEN FALSE
    ELSE IF a = "" THEN TRUE
    ELSE IF Head(a) # Head(b) THEN Ord(Head(a)) < Ord(Head(b))
    ELSE StrLess(Tail(a), Tail(b))

\* sorted(S) of a set of strings
RECURSIVE Sorted(_)
Sorted(S) ==
    IF S = {} THEN <<>>
    ELSE LET m == CHOOSE x \in S : \A y \in S \ {x} : StrLess(x, y)
         IN  <<m>> \o Sorted(S \ {m})

\* list[i] = v (i counted from 1)
SetAt(list, i, v) == [k \in DOMAIN list |-> IF k = i THEN v ELSE list[k]]

\* the concatenation of a sequence of sequences
RECURSIVE Flatten(_)
Flatten(ss) == IF ss = <<>> THEN <<>> ELSE Head(ss) \o Flatten(Tail(ss))

\* the first index of a sequence whose element satisfies Test, 0 when none does
FirstIndex(s, Test(_)) ==
    IF \E i \in DOMAIN s : Test(s[i])
    THEN Min({i \in DOMAIN s : Test(s[i])})
    ELSE 0

(***************************************************************************)
(* The font: what _setupFromPath derives from the masters and the axes     *)
(***************************************************************************)
\* self.gsFont.masters, in font order, with each master's design location
masters ==
    << [id |-> "#mL", name |-> "Light",   location |-> ("Weight" :> 17)],
       [id |-> "#mR", name |-> "Regular", location |-> ("Weight" :> 90)],
       [id |-> "#mB", name |-> "Bold",    location |-> ("Weight" :> 220)] >>

masterIds == {masters[i].id : i \in DOMAIN masters}

\* self.gsFont.masters[masterId]
masterById(masterId) == masters[CHOOSE i \in DOMAIN masters : masters[i].id = masterId]

\* self.axes: the names of the font axes, in axis order
axes == <<"Weight">>

\* self.axisNames
axisNames == Range(axes)

\* self.locationByMasterID
locationByMasterID == [m \in masterIds |-> masterById(m).location]

\* self.defaultLocation
defaultLocation == ("Weight" :> 90)

\* get_regular_master(self.gsFont).id
defaultMasterID == "#mR"

\* self.masterIDByLocationTuple.get(locationToTuple(location)); the later master
\* wins when two masters share a location
masterIDByLocationTuple(location) ==
    LET hits == {i \in DOMAIN masters : masters[i].location = location}
    IN  IF hits = {} THEN None
        ELSE masters[CHOOSE i \in hits : \A j \in hits : j <= i].id

\* fontra.core.varutils.makeSparseLocation
makeSparseLocation(location, default) ==
    [n \in {n \in DOMAIN default : Get(location, n, default[n]) # default[n]} |-> location[n]]

\* fontra.core.varutils.makeDenseLocation
makeDenseLocation(location, default) ==
    [n \in DOMAIN default |-> Get(location, n, default[n])]

\* uuid-shaped strings are written with a leading "#"
isGlyphsUUID(maybeUUID) == StartsWith(maybeUUID, "#")

(***************************************************************************)
(* glyphsLib's objects, as far as the backend reads and writes them        *)
(***************************************************************************)
\* GSLayer.name: a master layer answers with its master's name
gsLayer_name(gsLayer) ==
    IF gsLayer.associatedMasterId = gsLayer.layerId /\ gsLayer.layerId \in masterIds
    THEN masterById(gsLayer.layerId).name
    ELSE gsLayer.name

\* GSLayer.hasBackground
hasBackground(gsLayer) == gsLayer.background # <<>>

\* GSLayer._is_brace_layer
isBraceLayer(gsLayer) == "coordinates" \in DOMAIN gsLayer.attributes

\* iterating gsGlyph.layers: the master layers in master order, then the others in
\* the order in which they were added
orderedLayers(layers) ==
    LET isMaster(l) == l.layerId = l.associatedMasterId /\ l.layerId \in masterIds
        ofMaster(i) == SelectSeq(layers, LAMBDA l : isMaster(l) /\ l.layerId = masters[i].id)
    IN  Flatten([i \in DOMAIN masters |-> ofMaster(i)])
        \o SelectSeq(layers, LAMBDA l : ~isMaster(l))

\* gsGlyph.layers[layerId]: the position of the layer with this id, 0 when absent
layerIndex(layers, layerId) == FirstIndex(layers, LAMBDA l : l.layerId = layerId)

\* glyphsLib.classes.GSLayer(): a new, empty layer
newGSLayer(layerId) ==
    [layerId |-> layerId, name |-> None, associatedMasterId |-> None,
     attributes |-> EmptyDict, smartComponentPoleMapping |-> EmptyDict,
     userData |-> EmptyDict, width |-> 600, paths |-> 0, components |-> <<>>,
     background |-> <<>>]

\* glyphsLib.classes.GSGlyph(name)
newGSGlyph(name) ==
    [name |-> name, unicodes |-> <<>>, kernGroups |-> EmptyDict,
     smartComponentAxes |-> <<>>, layers |-> <<>>]

\* the result of an operation: what it raised ("" when it returned) and its value
Raise(err, msg) == [err |-> err, msg |-> msg, value |-> None]
Return(value) == [err |-> "", msg |-> "", value |-> value]

(***************************************************************************)
(* The read direction: GSGlyph -> VariableGlyph                            *)
(***************************************************************************)
disambiguateLocalAxisName(axisName, globalAxisNames) ==
    IF axisName \in globalAxisNames THEN axisName \o " (local)" ELSE axisName

gsComponentToFontraComponent(gsComponent) ==
    [name |-> gsComponent.name, skewX |-> 0]

\* gsLayer is a layer or the background of one; a background carries no width,
\* no userData and no layer id of its own
gsLayerToFontraLayer(gsShape, gsLayerWidth, gsLayerId) ==
    [glyph |-> [xAdvance |-> gsLayerWidth,
                path |-> gsShape.paths,
                components |-> [i \in DOMAIN gsShape.components |->
                                    gsComponentToFontraComponent(gsShape.components[i])]],
     customData |-> IF gsLayerId # None
                    THEN ("com.glyphsapp.layer.layerId" :> gsLayerId)
                    ELSE EmptyDict]

\* the glyph axes; basePoleMapping[axis.name] raises KeyError when the first layer
\* has no pole for the axis, gsGlyph.layers[0] raises IndexError without layers
gsLocalAxesToFontraLocalAxes(gsGlyph) ==
    LET layers == orderedLayers(gsGlyph.layers)
        gsAxes == gsGlyph.smartComponentAxes
    IN  IF layers = <<>> THEN Raise("IndexError", "list index out of range")
        ELSE LET basePoleMapping == layers[1].smartComponentPoleMapping
             IN  IF \E i \in DOMAIN gsAxes : gsAxes[i].name \notin DOMAIN basePoleMapping
                 THEN Raise("KeyError", "pole")
                 ELSE Return([i \in DOMAIN gsAxes |->
                        [name |-> gsAxes[i].name,
                         minValue |-> gsAxes[i].bottomValue,
                         defaultValue |-> IF basePoleMapping[gsAxes[i].name] = "MIN"
                                          THEN gsAxes[i].bottomValue
                                          ELSE gsAxes[i].topValue,
                         maxValue |-> gsAxes[i].topValue]])

\* {axis.name: axis for axis in localAxes}: the last axis of a name wins
axisByName(localAxes, name) ==
    localAxes[CHOOSE i \in DOMAIN localAxes :
                /\ localAxes[i].name = name
                /\ \A j \in DOMAIN localAxes : localAxes[j].name = name => j <= i]

_getBraceLayerLocation(gsLayer) ==
    IF ~isBraceLayer(gsLayer) THEN EmptyDict
    ELSE LET coordinates == gsLayer.attributes["coordinates"]
             n == IF Len(axes) < Len(coordinates) THEN Len(axes) ELSE Len(coordinates)
         IN  [a \in {axes[i] : i \in 1..n} |->
                 coordinates[CHOOSE i \in 1..n : axes[i] = a]]

\* raises KeyError (modelled by _getSmartLocationFails) when the pole mapping names
\* an axis the glyph does not have
_getSmartLocationFails(gsLayer, localAxes) ==
    \E name \in DOMAIN gsLayer.smartComponentPoleMapping :
        \A i \in DOMAIN localAxes : localAxes[i].name # name

_getSmartLocation(gsLayer, localAxes) ==
    LET poles == gsLayer.smartComponentPoleMapping
        value(name) == IF poles[name] = "MIN" THEN axisByName(localAxes, name).minValue
                       ELSE axisByName(localAxes, name).maxValue
        kept == {name \in DOMAIN poles : value(name) # axisByName(localAxes, name).defaultValue}
    IN  [a \in {disambiguateLocalAxisName(name, axisNames) : name \in kept} |->
            value(CHOOSE name \in kept : disambiguateLocalAxisName(name, axisNames) = a)]

\* the (axis, value) items of a location
locItems(location) == {<<a, location[a]>> : a \in DOMAIN location}

fixSourceLocations(sources, smartAxisNames) ==
    LET allItems == UNION {locItems(sources[i].location) : i \in DOMAIN sources}
        sets(item) == {i \in DOMAIN sources : item \in locItems(sources[i].location)}
        reverseSets(item) == {other \in allItems : sets(other) = sets(item)}
        locItemsToDelete == {item \in allItems :
                                /\ Cardinality(reverseSets(item)) > 1
                                /\ item[1] \notin smartAxisNames}
        fixed(location) == [a \in {a \in DOMAIN location :
                                     <<a, location[a]>> \notin locItemsToDelete} |-> location[a]]
    IN  [i \in DOMAIN sources |-> [sources[i] EXCEPT !.location = fixed(@)]]

\* the layers left in the order in which they are met
sortByMeetingOrder(gsLayers) == gsLayers

\* sorted(gsLayers, key=masterOrder[associatedMasterId]): a stable sort by the
\* position at which each associated master is first seen
sortByMasterOrder(gsLayers) ==
    LET firsts == {i \in DOMAIN gsLayers :
                      \A j \in 1..(i - 1) :
                          gsLayers[j].associatedMasterId # gsLayers[i].associatedMasterId}
        seenMasterIDs == [k \in 1..Cardinality(firsts) |->
                            gsLayers[CHOOSE i \in firsts :
                                        Cardinality({j \in firsts : j < i}) = k - 1
                                    ].associatedMasterId]
    IN  Flatten([k \in DOMAIN seenMasterIDs |->
                    SelectSeq(gsLayers,
                              LAMBDA l : l.associatedMasterId = seenMasterIDs[k])])

\* one turn of the loop over the sorted layers of getGlyph
\* the layer, and its background, enter the layers under layerName
readLayerNamed(gsLayer, layers, layerName, bgSeparator, storeLayerId) ==
    IF hasBackground(gsLayer)
    THEN SetKey(SetKey(layers, layerName,
                       gsLayerToFontraLayer(gsLayer, gsLayer.width,
                                            IF storeLayerId THEN gsLayer.layerId ELSE None)),
                layerName \o bgSeparator \o "background",
                gsLayerToFontraLayer(gsLayer.background[1], gsLayer.width, None))
    ELSE SetKey(layers, layerName,
                gsLayerToFontraLayer(gsLayer, gsLayer.width,
                                     IF storeLayerId THEN gsLayer.layerId ELSE None))

\* the layer at a location that was seen keeps no source
readLayerSeen(gsLayer, acc, location, smartLocation) ==
    [seenLocations |-> acc.seenLocations,
     sources |-> acc.sources,
     layers |-> readLayerNamed(gsLayer, acc.layers,
                               gsLayer.associatedMasterId \o "^" \o Fmt(gsLayer_name(gsLayer)),
                               "/", TRUE),
     smartLocation |-> smartLocation]

\* the layer at a new location is a source
readLayerSource(gsLayer, acc, location, smartLocation, sourceName, layerName) ==
    [seenLocations |-> acc.seenLocations \cup {location},
     sources |-> Append(acc.sources,
                        [name |-> sourceName, location |-> location,
                         layerName |-> layerName, locationBase |-> None,
                         customData |-> EmptyDict]),
     layers |-> readLayerNamed(gsLayer, acc.layers, layerName, "^",
                               layerName # gsLayer.layerId),
     smartLocation |-> smartLocation]

readLayerAt(gsLayer, acc, braceLocation, smartLocation, location) ==
    LET masterName == masterById(gsLayer.associatedMasterId).name
        stashed == Get(gsLayer.userData, "xyz.fontra.layer-name", None)
    IN  IF location \in acc.seenLocations
        THEN readLayerSeen(gsLayer, acc, location, smartLocation)
        ELSE readLayerSource(gsLayer, acc, location, smartLocation,
                IF "xyz.fontra.source-name" \in DOMAIN gsLayer.userData
                THEN gsLayer.userData["xyz.fontra.source-name"]
                ELSE IF braceLocation # EmptyDict \/ smartLocation # EmptyDict
                THEN masterName \o " / " \o Fmt(gsLayer_name(gsLayer))
                ELSE IF Truthy(gsLayer_name(gsLayer)) THEN gsLayer_name(gsLayer)
                ELSE masterName,
                IF Truthy(stashed) THEN stashed ELSE gsLayer.layerId)

readLayerLocated(gsLayer, acc, braceLocation, smartLocation) ==
    readLayerAt(gsLayer, acc, braceLocation, smartLocation,
                Merge(Merge(makeSparseLocation(locationByMasterID[gsLayer.associatedMasterId],
                                               defaultLocation),
                            braceLocation),
                      smartLocation))

readLayer(gsLayer, localAxes, acc) ==
    readLayerLocated(gsLayer, acc, _getBraceLayerLocation(gsLayer),
                     _getSmartLocation(gsLayer, localAxes))

RECURSIVE readLayers(_, _, _)
readLayers(gsLayers, localAxes, acc) ==
    IF gsLayers = <<>> THEN acc
    ELSE readLayers(Tail(gsLayers), localAxes, readLayer(Head(gsLayers), localAxes, acc))

\* getGlyph once the glyph is parsed: the VariableGlyph of a GSGlyph
\* the VariableGlyph getGlyph returns after its loop over the layers
variableGlyphRead(glyphName, localAxes, acc) ==
    [name |-> glyphName,
     axes |-> localAxes,
     sources |-> fixSourceLocations(acc.sources, DOMAIN acc.smartLocation),
     layers |-> acc.layers]

gsLayersToVariableGlyph(glyphName, axesResult, gsLayers) ==
    IF axesResult.err # "" THEN axesResult
    ELSE IF \E i \in DOMAIN gsLayers : _getSmartLocationFails(gsLayers[i], axesResult.value)
    THEN Raise("KeyError", "axis")
    ELSE Return(variableGlyphRead(glyphName, axesResult.value,
                    readLayers(gsLayers, axesResult.value,
                               [seenLocations |-> {}, sources |-> <<>>,
                                layers |-> EmptyDict, smartLocation |-> EmptyDict])))

gsGlyphToVariableGlyph(glyphName, gsGlyph) ==
    gsLayersToVariableGlyph(glyphName, gsLocalAxesToFontraLocalAxes(gsGlyph),
                            sortByMasterOrder(orderedLayers(gsGlyph.layers)))

(***************************************************************************)
(* The write direction: VariableGlyph -> GSGlyph                           *)
(***************************************************************************)
\* getSourceLayerNames that takes every layer for the layer of a source
getSourceLayerNamesOfAll(variableGlyph) ==
    [sourceLayers |->
        [n \in {variableGlyph.sources[i].layerName : i \in DOMAIN variableGlyph.sources} |-> {}],
     sourceLayerNames |-> DOMAIN variableGlyph.layers]

getSourceLayerNames(variableGlyph) ==
    LET sourceLayers ==
            [n \in {variableGlyph.sources[i].layerName : i \in DOMAIN variableGlyph.sources} |->
                {layerName \in DOMAIN variableGlyph.layers : StartsWith(layerName, n \o "^")}]
    IN  [sourceLayers |-> sourceLayers,
         sourceLayerNames |-> (DOMAIN sourceLayers)
                              \cup UNION {sourceLayers[n] : n \in DOMAIN sourceLayers}]

getDefaultLocation(glyphAxes) ==
    [n \in {glyphAxes[i].name : i \in DOMAIN glyphAxes} |-> axisByName(glyphAxes, n).defaultValue]

\* setupSmartComponentAxes without its check of the default values
setupSmartComponentAxesUnchecked(variableGlyph) ==
    Return([i \in DOMAIN variableGlyph.axes |->
               [name |-> variableGlyph.axes[i].name,
                bottomValue |-> variableGlyph.axes[i].minValue,
                topValue |-> variableGlyph.axes[i].maxValue]])

setupSmartComponentAxes(variableGlyph) ==
    LET glyphAxes == variableGlyph.axes
        bad == {i \in DOMAIN glyphAxes :
                    glyphAxes[i].defaultValue \notin {glyphAxes[i].minValue, glyphAxes[i].maxValue}}
    IN  IF bad # {}
        THEN Raise("GlyphsBackendError",
                   "GlyphsApp Backend: Glyph axis '" \o glyphAxes[Min(bad)].name \o "' defaultValue must be at MIN or MAX.")
        ELSE Return([i \in DOMAIN glyphAxes |->
                        [name |-> glyphAxes[i].name,
                         bottomValue |-> glyphAxes[i].minValue,
                         topValue |-> glyphAxes[i].maxValue]])

splitLocation(location, glyphAxes) ==
    LET glyphAxisNames == {glyphAxes[i].name : i \in DOMAIN glyphAxes}
    IN  [fontLocation |-> [a \in (DOMAIN location) \ glyphAxisNames |-> location[a]],
         glyphLocation |-> [a \in (DOMAIN location) \cap glyphAxisNames |-> location[a]]]

_getSourceLocation(glyphSource) ==
    Merge(IF glyphSource.locationBase = None THEN EmptyDict
          ELSE locationByMasterID[glyphSource.locationBase],
          glyphSource.location)

_getSourceLocations(glyphSource, glyphAxes, defaultGlyphLocation) ==
    LET split == splitLocation(_getSourceLocation(glyphSource), glyphAxes)
    IN  [fontLocation |-> makeDenseLocation(split.fontLocation, defaultLocation),
         glyphLocation |-> makeDenseLocation(split.glyphLocation, defaultGlyphLocation)]

\* sum of (a[axis] - b.get(axis, 0)) ** 2 over the given axes
RECURSIVE squaredDistance(_, _, _)
squaredDistance(a, b, over) ==
    IF over = {} THEN 0
    ELSE LET axis == CHOOSE x \in over : TRUE
             diff == a[axis] - Get(b, axis, 0)
         IN  diff * diff + squaredDistance(a, b, over \ {axis})

\* fontra.core.discretevariationmodel.findNearestLocationIndex over the masters:
\* the first master at the least squared distance
_findNearestMasterId(fontLocation) ==
    LET d(i) == squaredDistance(fontLocation, masters[i].location, DOMAIN fontLocation)
        best == CHOOSE i \in DOMAIN masters :
                    \A j \in DOMAIN masters : d(i) < d(j) \/ (d(i) = d(j) /\ i <= j)
    IN  masters[best].id

\* the record sourceInfo of _setupSourceInfo, from the locations of the source, the
\* master at its font location and the master the layer is associated with
sourceInfoRecord(locs, masterId, associatedMasterId, defaultGlyphLocation) ==
    [fontLocation |-> locs.fontLocation,
     glyphLocation |-> locs.glyphLocation,
     masterId |-> masterId,
     masterName |-> IF masterId # None THEN masterById(masterId).name ELSE None,
     isBraceLayer |-> masterId = None,
     isSmartComponentLayer |-> locs.glyphLocation # defaultGlyphLocation,
     associatedMasterId |-> associatedMasterId,
     associatedMasterName |-> masterById(associatedMasterId).name]

\* setupSourceInfoAt without the rejection of a brace layer in a glyph with axes
setupSourceInfoAtAnyGlyph(glyphSource, variableGlyph, defaultGlyphLocation, locs, masterId) ==
    LET hint == Get(glyphSource.customData, "com.glyphsapp.layer.associatedMasterId", None)
    IN  Return(sourceInfoRecord(locs, masterId,
                                IF Truthy(masterId) THEN masterId
                                ELSE IF Truthy(hint) THEN hint
                                ELSE _findNearestMasterId(locs.fontLocation),
                                defaultGlyphLocation))

\* _setupSourceInfo once the locations of the source and the master at its font
\* location are known
setupSourceInfoAt(glyphSource, variableGlyph, defaultGlyphLocation, locs, masterId) ==
    LET hint == Get(glyphSource.customData, "com.glyphsapp.layer.associatedMasterId", None)
    IN  IF masterId = None /\ variableGlyph.axes # <<>>
        THEN Raise("NotImplementedError",
                   "GlyphsApp Backend: Brace layers within smart glyphs are not yet implemented.")
        ELSE Return(sourceInfoRecord(locs, masterId,
                                     IF Truthy(masterId) THEN masterId
                                     ELSE IF Truthy(hint) THEN hint
                                     ELSE _findNearestMasterId(locs.fontLocation),
                                     defaultGlyphLocation))

setupSourceInfoOf(glyphSource, variableGlyph, defaultGlyphLocation, locs) ==
    setupSourceInfoAt(glyphSource, variableGlyph, defaultGlyphLocation, locs,
                      masterIDByLocationTuple(locs.fontLocation))

_setupSourceInfo(glyphSource, variableGlyph, defaultGlyphLocation) ==
    setupSourceInfoOf(glyphSource, variableGlyph, defaultGlyphLocation,
                      _getSourceLocations(glyphSource, variableGlyph.axes,
                                          defaultGlyphLocation))

\* str(n) of a natural number
RECURSIVE NumStr(_)
NumStr(n) ==
    IF n < 10 THEN SubSeq("0123456789", n + 1, n + 1)
    ELSE NumStr(n \div 10) \o SubSeq("0123456789", (n % 10) + 1, (n % 10) + 1)

\* ",".join(strings)
RECURSIVE Join(_, _)
Join(sep, strings) ==
    IF strings = <<>> THEN ""
    ELSE IF Len(strings) = 1 THEN strings[1]
    ELSE strings[1] \o sep \o Join(sep, Tail(strings))

\* location.values(), in axis order
locationValues(location) ==
    LET present == SelectSeq(axes, LAMBDA a : a \in DOMAIN location)
    IN  [i \in DOMAIN present |-> location[present[i]]]

getBraceLayerName(location) ==
    LET values == locationValues(location)
    IN  "{" \o Join(",", [i \in DOMAIN values |-> NumStr(values[i])]) \o "}"

\* sha1 of "<glyphName>/<layerName>" as an upper-case uuid: a uuid-shaped string
\* that the seed determines; "^" and "/" of the seed do not survive in it
RECURSIVE digest(_)
digest(t) ==
    IF t = "" THEN ""
    ELSE (IF Head(t) = "^" THEN "+" ELSE IF Head(t) = "/" THEN ":" ELSE Head(t))
         \o digest(Tail(t))

sha1uuid(seed) == "#sha1(" \o digest(seed) \o ")"

\* getLayerId when a layer name that looks like a native identifier is hashed as
\* every other name is
getLayerIdHashingEveryName(variableGlyph, layerName, suggestedLayerId) ==
    LET layer == variableGlyph.layers[layerName]
        stashed == Get(layer.customData, "com.glyphsapp.layer.layerId", None)
    IN  IF stashed # None THEN stashed
        ELSE IF suggestedLayerId # None THEN suggestedLayerId
        ELSE sha1uuid(variableGlyph.name \o "/" \o layerName)

getLayerId(variableGlyph, layerName, suggestedLayerId) ==
    LET layer == variableGlyph.layers[layerName]
        stashed == Get(layer.customData, "com.glyphsapp.layer.layerId", None)
    IN  IF stashed # None THEN stashed
        ELSE IF suggestedLayerId # None THEN suggestedLayerId
        ELSE IF isGlyphsUUID(layerName) THEN layerName
        ELSE sha1uuid(variableGlyph.name \o "/" \o layerName)

setupLayerInfo(glyphSource, sourceInfo, layerName, variableGlyph, gsGlyph) ==
    LET isMainLayer == layerName = glyphSource.layerName
        storeSourceName == glyphSource.name # sourceInfo.associatedMasterName
        localLayerName == Split1(layerName, "^")[2]
        isBackground == localLayerName = "background" \/ EndsWith(localLayerName, "/background")
        baseLayerName == SubSeq(layerName, 1, Len(layerName) - 11)
        slash == Contains(glyphSource.name, " / ")
                 /\ Split1(glyphSource.name, " / ")[1] = sourceInfo.associatedMasterName
        layoutLayerId == getLayerId(variableGlyph, layerName, None)
        info(gsLayerName, gsLayerId, storeSource, storeLayer) ==
            Return([isMainLayer |-> isMainLayer,
                    isBackgroundLayer |-> gsLayerName = None,
                    gsLayerName |-> gsLayerName,
                    gsLayerId |-> gsLayerId,
                    shouldStoreFontraSourceName |-> storeSource,
                    shouldStoreFontraLayerName |-> storeLayer])
    IN  IF isMainLayer
        THEN info(IF slash THEN Split1(glyphSource.name, " / ")[2]
                  ELSE IF sourceInfo.isSmartComponentLayer THEN glyphSource.name
                  ELSE IF sourceInfo.isBraceLayer THEN getBraceLayerName(sourceInfo.fontLocation)
                  ELSE sourceInfo.masterName,
                  IF sourceInfo.isSmartComponentLayer
                  THEN getLayerId(variableGlyph, layerName, None)
                  ELSE getLayerId(variableGlyph, layerName, sourceInfo.masterId),
                  IF slash THEN FALSE ELSE storeSourceName,
                  TRUE)
        ELSE IF isBackground
        THEN IF baseLayerName \notin DOMAIN variableGlyph.layers
             THEN Raise("KeyError", baseLayerName)
             ELSE info(None,
                       getLayerId(variableGlyph, baseLayerName,
                                  IF localLayerName = "background" THEN sourceInfo.masterId
                                  ELSE None),
                       storeSourceName, TRUE)
        ELSE IF layerIndex(gsGlyph.layers, layoutLayerId) = 0 /\ sourceInfo.isBraceLayer
        THEN Raise("GlyphsBackendError",
                   "A brace layer can only have an additional source layer named 'background'")
        ELSE info(localLayerName, layoutLayerId, storeSourceName, FALSE)

\* the layers with the one of this id appended when there is none; a layer that is
\* appended without an associated master gets the first master
getOrCreateGSLayer(gsLayers, gsLayerId) ==
    IF layerIndex(gsLayers, gsLayerId) # 0 THEN gsLayers
    ELSE Append(gsLayers, [newGSLayer(gsLayerId) EXCEPT !.associatedMasterId = masters[1].id])

storeInDict(d, key, value, doStore) ==
    IF doStore THEN SetKey(d, key, value) ELSE DelKey(d, key)

setupPoleMapping(glyphAxes, location) ==
    IF \E i \in DOMAIN glyphAxes :
            location[glyphAxes[i].name] \notin {glyphAxes[i].minValue, glyphAxes[i].maxValue}
    THEN Raise("NotImplementedError",
               "Intermediate layers within smart glyphs are not yet implemented")
    ELSE Return([n \in {glyphAxes[i].name : i \in DOMAIN glyphAxes} |->
                    IF axisByName(glyphAxes, n).minValue = location[n] THEN "MIN" ELSE "MAX"])

\* the gsLayer as updateGSLayer leaves it; a background layer leaves it alone and
\* answers with its background
updateGSLayer(variableGlyph, layerName, glyphSource, gsLayer, sourceInfo, layerInfo) ==
    LET poles == setupPoleMapping(variableGlyph.axes, sourceInfo.glyphLocation)
        setPoles == layerInfo.isMainLayer /\ variableGlyph.axes # <<>>
    IN  IF layerInfo.isBackgroundLayer THEN Return(gsLayer)
        ELSE IF setPoles /\ poles.err # "" THEN poles
        ELSE Return(
            [gsLayer EXCEPT
                !.name = layerInfo.gsLayerName,
                !.associatedMasterId = sourceInfo.associatedMasterId,
                !.smartComponentPoleMapping = IF setPoles THEN poles.value ELSE @,
                !.userData =
                    storeInDict(
                        storeInDict(@, "xyz.fontra.layer-name", layerName,
                                    layerName # layerInfo.gsLayerId
                                        /\ layerInfo.shouldStoreFontraLayerName),
                        "xyz.fontra.source-name", glyphSource.name,
                        Truthy(glyphSource.name) /\ layerInfo.shouldStoreFontraSourceName)])

EPSILON == 0

\* the conversion with the error of the backend for a skew
fontraComponentToGSComponentBackendError(component) ==
    IF component.skewX > EPSILON \/ (0 - component.skewX) > EPSILON
    THEN Raise("GlyphsBackendError",
               "GlyphsApp Backend: Does not support skewing of components, yet.")
    ELSE Return([name |-> component.name])

fontraComponentToGSComponent(component) ==
    IF component.skewX > EPSILON \/ (0 - component.skewX) > EPSILON
    THEN Raise("TypeError", "GlyphsApp Backend: Does not support skewing of components, yet.")
    ELSE Return([name |-> component.name])

\* the layer (or, for a background layer, its background) drawn anew; the width of
\* a background is the one of its layer and cannot be set
fontraLayerToGSLayer(layer, gsLayer, isBackgroundLayer) ==
    LET comps == [i \in DOMAIN layer.glyph.components |->
                      fontraComponentToGSComponent(layer.glyph.components[i])]
        shape == [paths |-> layer.glyph.path,
                  components |-> [i \in DOMAIN comps |-> comps[i].value]]
    IN  IF \E i \in DOMAIN comps : comps[i].err # ""
        THEN comps[Min({i \in DOMAIN comps : comps[i].err # ""})]
        ELSE IF isBackgroundLayer
        THEN Return([gsLayer EXCEPT !.background = <<shape>>])
        ELSE Return([gsLayer EXCEPT !.paths = shape.paths,
                                    !.components = shape.components,
                                    !.width = layer.glyph.xAdvance])

\* one turn of the inner loop of _variableGlyphToGSGlyph: the layer layerName of
\* the source glyphSource written into the layers of acc
\* the loop state acc of _variableGlyphToGSGlyph once a call has raised
failed(acc, r) == [acc EXCEPT !.err = r.err, !.msg = r.msg]

\* the end of a turn: the layer that fontraLayerToGSLayer has drawn gets the brace
\* coordinates and takes its place in the layers
writeLayerDrawn(sourceInfo, acc, gsLayerId, created, at, drawn) ==
    IF drawn.err # "" THEN failed(acc, drawn)
    ELSE [acc EXCEPT
            !.layers = SetAt(created, at,
                             IF sourceInfo.isBraceLayer
                             THEN [drawn.value EXCEPT !.attributes =
                                     SetKey(@, "coordinates",
                                            locationValues(sourceInfo.fontLocation))]
                             ELSE drawn.value),
            !.layerIdsInUse = @ \cup {gsLayerId}]

writeLayerUpdated(sourceInfo, layerName, variableGlyph, acc, layerInfo, created, at,
                  updated) ==
    IF updated.err # "" THEN failed(acc, updated)
    ELSE writeLayerDrawn(sourceInfo, acc, layerInfo.gsLayerId, created, at,
                         fontraLayerToGSLayer(variableGlyph.layers[layerName],
                                              updated.value, layerInfo.isBackgroundLayer))

writeLayerCreated(glyphSource, sourceInfo, layerName, variableGlyph, acc, layerInfo,
                  created) ==
    writeLayerUpdated(sourceInfo, layerName, variableGlyph, acc, layerInfo, created,
                      layerIndex(created, layerInfo.gsLayerId),
                      updateGSLayer(variableGlyph, layerName, glyphSource,
                                    created[layerIndex(created, layerInfo.gsLayerId)],
                                    sourceInfo, layerInfo))

writeLayerInfo(glyphSource, sourceInfo, layerName, variableGlyph, acc, layerInfo) ==
    IF layerInfo.err # "" THEN failed(acc, layerInfo)
    ELSE writeLayerCreated(glyphSource, sourceInfo, layerName, variableGlyph, acc,
                           layerInfo.value,
                           getOrCreateGSLayer(acc.layers, layerInfo.value.gsLayerId))

writeLayer(glyphSource, sourceInfo, layerName, variableGlyph, acc) ==
    IF acc.err # "" THEN acc
    ELSE writeLayerInfo(glyphSource, sourceInfo, layerName, variableGlyph, acc,
                        setupLayerInfo(glyphSource, sourceInfo, layerName, variableGlyph,
                                       [layers |-> acc.layers]))

RECURSIVE writeLayers(_, _, _, _, _)
writeLayers(glyphSource, sourceInfo, layerNames, variableGlyph, acc) ==
    IF layerNames = <<>> THEN acc
    ELSE writeLayers(glyphSource, sourceInfo, Tail(layerNames), variableGlyph,
                     writeLayer(glyphSource, sourceInfo, Head(layerNames), variableGlyph, acc))

\* one turn of the loop over the sources of _variableGlyphToGSGlyph
writeSourceInfo(glyphSource, sourceLayers, variableGlyph, acc, sourceInfo) ==
    IF sourceInfo.err # "" THEN failed(acc, sourceInfo)
    ELSE writeLayers(glyphSource, sourceInfo.value,
                     <<glyphSource.layerName>> \o Sorted(sourceLayers[glyphSource.layerName]),
                     variableGlyph, acc)

writeSource(glyphSource, sourceLayers, variableGlyph, defaultGlyphLocation, acc) ==
    IF acc.err # "" THEN acc
    ELSE writeSourceInfo(glyphSource, sourceLayers, variableGlyph, acc,
                         _setupSourceInfo(glyphSource, variableGlyph, defaultGlyphLocation))

RECURSIVE writeSources(_, _, _, _, _)
writeSources(sources, sourceLayers, variableGlyph, defaultGlyphLocation, acc) ==
    IF sources = <<>> THEN acc
    ELSE writeSources(Tail(sources), sourceLayers, variableGlyph, defaultGlyphLocation,
                      writeSource(Head(sources), sourceLayers, variableGlyph,
                                  defaultGlyphLocation, acc))

\* the end of _variableGlyphToGSGlyph without the deletion of the unused layers
variableGlyphWrittenKeepingLayers(gsGlyph, smartComponentAxes, acc) ==
    IF acc.err # "" THEN Raise(acc.err, acc.msg)
    ELSE Return([gsGlyph EXCEPT
                    !.smartComponentAxes = smartComponentAxes,
                    !.layers = acc.layers])

\* the gsGlyph as _variableGlyphToGSGlyph leaves it, or what it raises
\* the end of _variableGlyphToGSGlyph: the layers no source has used are deleted
variableGlyphWritten(gsGlyph, smartComponentAxes, acc) ==
    IF acc.err # "" THEN Raise(acc.err, acc.msg)
    ELSE Return([gsGlyph EXCEPT
                    !.smartComponentAxes = smartComponentAxes,
                    !.layers = SelectSeq(acc.layers,
                                         LAMBDA l : l.layerId \in acc.layerIdsInUse)])

variableGlyphNamed(variableGlyph, gsGlyph, names, smartComponentAxes) ==
    IF (DOMAIN variableGlyph.layers) \ names.sourceLayerNames # {}
    THEN Raise("GlyphsBackendError",
               "GlyphsApp Backend: Layer without glyph source is not supported.")
    ELSE IF smartComponentAxes.err # "" THEN smartComponentAxes
    ELSE variableGlyphWritten(gsGlyph, smartComponentAxes.value,
            writeSources(variableGlyph.sources, names.sourceLayers, variableGlyph,
                         getDefaultLocation(variableGlyph.axes),
                         [err |-> "", msg |-> "", layers |-> gsGlyph.layers,
                          layerIdsInUse |-> {}]))

_variableGlyphToGSGlyph(variableGlyph, gsGlyph) ==
    variableGlyphNamed(variableGlyph, gsGlyph, getSourceLayerNames(variableGlyph),
                       setupSmartComponentAxes(variableGlyph))

(***************************************************************************)
(* Raw glyph records: what glyphsLib's writer writes and its parser reads  *)
(***************************************************************************)
\* f"{codePoint:04X}"
RECURSIVE hex(_)
hex(n) ==
    IF n < 16 THEN SubSeq("0123456789ABCDEF", n + 1, n + 1)
    ELSE hex(n \div 16) \o SubSeq("0123456789ABCDEF", (n % 16) + 1, (n % 16) + 1)

hex04X(codePoint) == SubSeq("0000", 1, 4 - Len(hex(codePoint))) \o hex(codePoint)

\* int(s, 16)
RECURSIVE int16(_)
int16(s) ==
    IF s = "" THEN 0
    ELSE int16(SubSeq(s, 1, Len(s) - 1)) * 16
         + (Min(FindAll("0123456789ABCDEF", SubSeq(s, Len(s), Len(s)))) - 1)

\* the writer writes the layers in iteration order, a master layer without its
\* name and without its associatedMasterId, the code points as numbers; kernGroups
\* are the kerning group attributes of the glyph, by attribute name
_getRawData(gsGlyph) ==
    LET gsLayers == orderedLayers(gsGlyph.layers)
        rawLayer(l) == IF l.layerId = l.associatedMasterId
                       THEN [l EXCEPT !.name = None, !.associatedMasterId = None]
                       ELSE l
    IN  [glyphname |-> gsGlyph.name,
         unicode |-> [i \in DOMAIN gsGlyph.unicodes |-> int16(gsGlyph.unicodes[i])],
         kernGroups |-> gsGlyph.kernGroups,
         partsSettings |-> gsGlyph.smartComponentAxes,
         layers |-> [i \in DOMAIN gsLayers |-> rawLayer(gsLayers[i])]]

\* Parser.parse_into_object(GSGlyph(), rawGlyphData); glyphsLib does not know the
\* attributes kernTop and kernBottom (tests/test_utils.py, compareFilesPyLines)
parseGlyph(rawGlyphData) ==
    LET gsLayer(l) == IF l.associatedMasterId = None
                      THEN [l EXCEPT !.associatedMasterId = l.layerId]
                      ELSE l
    IN  [name |-> rawGlyphData.glyphname,
         unicodes |-> [i \in DOMAIN rawGlyphData.unicode |-> hex04X(rawGlyphData.unicode[i])],
         kernGroups |-> [a \in DOMAIN rawGlyphData.kernGroups \ {"kernTop", "kernBottom"} |->
                            rawGlyphData.kernGroups[a]],
         smartComponentAxes |-> rawGlyphData.partsSettings,
         layers |-> [i \in DOMAIN rawGlyphData.layers |-> gsLayer(rawGlyphData.layers[i])]]

(***************************************************************************)
(* Kerning: Kerning(groupsSide1, groupsSide2, sourceIdentifiers, values)   *)
(* of fontra on one side, gsFont.kerning and the group attributes of the   *)
(* glyph records on the other                                              *)
(***************************************************************************)
GS_KERN_GROUP_PREFIXES ==
    [left |-> "@MMK_L_", right |-> "@MMK_R_", top |-> "@MMK_T_", bottom |-> "@MMK_B_"]

GS_FORMAT_2_KERN_SIDES ==
    << <<"left", "rightKerningGroup">>, <<"right", "leftKerningGroup">>,
       <<"top", "bottomKerningGroup">>, <<"bottom", "topKerningGroup">> >>

GS_FORMAT_3_KERN_SIDES ==
    << <<"left", "kernRight">>, <<"right", "kernLeft">>,
       <<"top", "kernBottom">>, <<"bottom", "kernTop">> >>

kerningSideAttrs(version) ==
    IF version = 2 THEN GS_FORMAT_2_KERN_SIDES ELSE GS_FORMAT_3_KERN_SIDES

_kerningSideAttrs(self) == kerningSideAttrs(self.format_version)

_verticalKerningAttr(self) ==
    IF self.format_version = 2 THEN "vertKerning" ELSE "kerningVertical"

translateGroupName(name, oldPrefix, newPrefix) ==
    IF StartsWith(name, oldPrefix)
    THEN newPrefix \o SubSeq(name, Len(oldPrefix) + 1, Len(name))
    ELSE name

\* Kerning(...)
Kerning(groupsSide1, groupsSide2, sourceIdentifiers, values) ==
    [groupsSide1 |-> groupsSide1, groupsSide2 |-> groupsSide2,
     sourceIdentifiers |-> sourceIdentifiers, values |-> values]

\* the font without feature code
NoFeatures == ""

\* the font without kerning, as a file holds it
NoKerning == [kerning |-> EmptyDict, kerningVertical |-> EmptyDict]

\* the names of the glyph records, in record order, whose attribute names the group
groupMembers(rawGlyphs, glyphSideAttr, groupName) ==
    LET members == SelectSeq(rawGlyphs,
                             LAMBDA g : Get(g.kernGroups, glyphSideAttr, None) = groupName)
    IN  [i \in DOMAIN members |-> members[i].glyphname]

\* kerningGroups[pairSide] of _readGlyphMapAndKerningGroups
sideGroups(rawGlyphs, glyphSideAttr) ==
    LET names == {Get(rawGlyphs[i].kernGroups, glyphSideAttr, None) : i \in DOMAIN rawGlyphs}
    IN  [groupName \in names \ {None} |-> groupMembers(rawGlyphs, glyphSideAttr, groupName)]

\* the kerning groups half of _readGlyphMapAndKerningGroups: a side is a key of the
\* defaultdict when a glyph record names a group of that side
_readKerningGroups(version, rawGlyphs) ==
    LET sideAttrs == kerningSideAttrs(version)
        attrOf(pairSide) == sideAttrs[CHOOSE k \in DOMAIN sideAttrs : sideAttrs[k][1] = pairSide][2]
        sides == {sideAttrs[k][1] : k \in {k \in DOMAIN sideAttrs :
                     \E i \in DOMAIN rawGlyphs : sideAttrs[k][2] \in DOMAIN rawGlyphs[i].kernGroups}}
    IN  [pairSide \in sides |-> sideGroups(rawGlyphs, attrOf(pairSide))]

(***************************************************************************)
(* The backend object: a record self of the fields of GlyphsBackend        *)
(***************************************************************************)
\* gsFont.glyphs[glyphName]: the position of the first glyph of that name, 0 when
\* there is none (a placeholder GSGlyph() has no name). glyphsLib also looks a
\* string up as a character and as a code point; the glyph names of the model have
\* several letters and are no hexadecimal numbers, so that no such lookup matches.
glyphByName(glyphs, glyphName) == FirstIndex(glyphs, LAMBDA g : g.name = glyphName)

\* {glyphData["glyphname"]: i for i, glyphData in enumerate(rawGlyphsData)}
_updateGlyphNameToIndex(rawGlyphs) ==
    LET names == {rawGlyphs[i].glyphname : i \in DOMAIN rawGlyphs}
        lastAt(n) == CHOOSE i \in DOMAIN rawGlyphs :
                        /\ rawGlyphs[i].glyphname = n
                        /\ \A j \in DOMAIN rawGlyphs : rawGlyphs[j].glyphname = n => j <= i
    IN  [n \in names |-> lastAt(n) - 1]

\* the glyph map half of _readGlyphMapAndKerningGroups
_readGlyphMap(rawGlyphs) ==
    LET nameToIndex == _updateGlyphNameToIndex(rawGlyphs)
    IN  [n \in DOMAIN nameToIndex |-> rawGlyphs[nameToIndex[n] + 1].unicode]

\* _setupFromPath: the backend over the glyph records and the kerning of a file of
\* a format version; the format-2 parser knows no attribute vertKerning
setupFromFile(file, version, kerning) ==
    [glyphMap |-> _readGlyphMap(file),
     glyphNameToIndex |-> _updateGlyphNameToIndex(file),
     rawGlyphsData |-> file,
     gsGlyphs |-> [i \in DOMAIN file |-> newGSGlyph(None)],
     parsedGlyphNames |-> {},
     fileGlyphs |-> file,
     format_version |-> version,
     gsKerning |-> kerning,
     kerningGroups |-> _readKerningGroups(version, file),
     fileKerning |-> kerning,
     gsFeatures |-> NoFeatures]

\* _setupFromPath over a format-3 file without kerning
_setupFromPath(file) == setupFromFile(file, 3, NoKerning)

\* _writeRawFontData: the whole file is written from rawGlyphsData
_writeRawFontData(self) == [self EXCEPT !.fileGlyphs = self.rawGlyphsData]

\* the names of the components of the layers and of their backgrounds
componentNames(gsGlyph) ==
    LET of(shape) == {shape.components[i].name : i \in DOMAIN shape.components}
    IN  UNION {of(gsGlyph.layers[i]) \cup
               (IF hasBackground(gsGlyph.layers[i]) THEN of(gsGlyph.layers[i].background[1])
                ELSE {}) : i \in DOMAIN gsGlyph.layers}

\* _ensureGlyphIsParsed on the pair [self, err]; what it has changed stays changed
\* when a nested call raises
RECURSIVE _ensureGlyphIsParsed(_, _)
RECURSIVE ensureEach(_, _)
\* the loop over the sorted component names of _ensureGlyphIsParsed
ensureEach(st, names) ==
    IF names = <<>> \/ st.err # "" THEN st
    ELSE ensureEach(_ensureGlyphIsParsed(st, Head(names)), Tail(names))

_ensureGlyphIsParsed(st, glyphName) ==
    LET self == st.self
        glyphIndex == self.glyphNameToIndex[glyphName]
        gsGlyph == parseGlyph(self.rawGlyphsData[glyphIndex + 1])
        parsed == [self EXCEPT !.parsedGlyphNames = @ \cup {glyphName},
                               !.gsGlyphs = SetAt(@, glyphIndex + 1, gsGlyph)]
        compoNames == SelectSeq(Sorted(componentNames(gsGlyph)),
                                LAMBDA n : n \in DOMAIN self.glyphNameToIndex)
    IN  IF st.err # "" \/ glyphName \in self.parsedGlyphNames THEN st
        ELSE IF glyphIndex >= Len(self.rawGlyphsData)
        THEN [st EXCEPT !.err = "IndexError"]
        ELSE IF glyphIndex >= Len(self.gsGlyphs)
        THEN [self |-> [self EXCEPT !.parsedGlyphNames = @ \cup {glyphName}],
              err |-> "IndexError"]
        ELSE ensureEach([self |-> parsed, err |-> ""], compoNames)

\* VariableGlyph | None: no glyph is the empty sequence, a glyph a sequence of one
NoGlyph == <<>>
Some(result) == IF result.err # "" THEN result ELSE Return(<<result.value>>)

\* getGlyph: the backend it leaves and what it returns or raises
\* getGlyph after _ensureGlyphIsParsed: self.gsFont.glyphs[glyphName] and on
getGlyphParsed(glyphName, ensured) ==
    LET at == glyphByName(ensured.self.gsGlyphs, glyphName)
    IN  IF ensured.err # ""
        THEN [self |-> ensured.self, result |-> Raise(ensured.err, "list index out of range")]
        ELSE IF at = 0
        THEN [self |-> ensured.self,
              result |-> Raise("AttributeError", "'NoneType' object has no attribute 'color'")]
        ELSE [self |-> ensured.self,
              result |-> Some(gsGlyphToVariableGlyph(glyphName, ensured.self.gsGlyphs[at]))]

getGlyph(self, glyphName) ==
    IF glyphName \notin DOMAIN self.glyphNameToIndex
    THEN [self |-> self, result |-> Return(NoGlyph)]
    ELSE getGlyphParsed(glyphName,
                        _ensureGlyphIsParsed([self |-> self, err |-> ""], glyphName))

\* del list[index + 1]
DelAt(list, index) == SubSeq(list, 1, index) \o SubSeq(list, index + 2, Len(list))

\* _putGlyph up to the deepcopy of the glyph: the asserts, the glyph map entry and
\* the registration of a new glyph; frame holds the locals of the call
_putGlyphBegin(self, glyphName, glyph, codePoints) ==
    LET isNewGlyph == glyphByName(self.gsGlyphs, glyphName) = 0
        mapped == [self EXCEPT !.glyphMap = SetKey(@, glyphName, codePoints)]
        registered ==
            IF isNewGlyph
            THEN [mapped EXCEPT !.gsGlyphs = Append(@, newGSGlyph(glyphName)),
                                !.glyphNameToIndex = SetKey(@, glyphName, Len(self.gsGlyphs))]
            ELSE mapped
    IN  IF \E i \in DOMAIN glyph.sources : glyph.sources[i].layerName \notin DOMAIN glyph.layers
        THEN [self |-> self, result |-> Raise("AssertionError", ""), frame |-> None]
        ELSE [self |-> registered, result |-> Return(None),
              frame |-> [glyphName |-> glyphName, glyph |-> glyph, codePoints |-> codePoints,
                         isNewGlyph |-> isNewGlyph,
                         gsGlyph |-> registered.gsGlyphs[glyphByName(registered.gsGlyphs,
                                                                     glyphName)]]]

\* putGlyphStore that leaves the glyph among the parsed glyphs
putGlyphStoreKeepingParsed(self, frame, rawGlyphData) ==
    LET glyphIndex == self.glyphNameToIndex[frame.glyphName]
        stored == IF frame.isNewGlyph
                  THEN [self EXCEPT !.rawGlyphsData = Append(@, rawGlyphData)]
                  ELSE [self EXCEPT !.rawGlyphsData = SetAt(@, glyphIndex + 1, rawGlyphData)]
    IN  IF frame.glyphName \notin DOMAIN self.glyphNameToIndex
        THEN [self |-> self, result |-> Raise("KeyError", frame.glyphName)]
        ELSE IF frame.isNewGlyph /\ glyphIndex # Len(self.rawGlyphsData)
        THEN [self |-> self, result |-> Raise("AssertionError", "")]
        ELSE IF ~frame.isNewGlyph /\ glyphIndex >= Len(self.rawGlyphsData)
        THEN [self |-> self,
              result |-> Raise("IndexError", "list assignment index out of range")]
        ELSE [self |-> _writeRawFontData(stored), result |-> Return(None)]

\* the rest of _putGlyph: the conversion, the raw record, the file
\* the raw record of the converted glyph is stored, the file is written and the
\* glyph is no longer parsed
putGlyphStore(self, frame, rawGlyphData) ==
    LET glyphIndex == self.glyphNameToIndex[frame.glyphName]
        stored == IF frame.isNewGlyph
                  THEN [self EXCEPT !.rawGlyphsData = Append(@, rawGlyphData)]
                  ELSE [self EXCEPT !.rawGlyphsData = SetAt(@, glyphIndex + 1, rawGlyphData)]
    IN  IF frame.glyphName \notin DOMAIN self.glyphNameToIndex
        THEN [self |-> self, result |-> Raise("KeyError", frame.glyphName)]
        ELSE IF frame.isNewGlyph /\ glyphIndex # Len(self.rawGlyphsData)
        THEN [self |-> self, result |-> Raise("AssertionError", "")]
        ELSE IF ~frame.isNewGlyph /\ glyphIndex >= Len(self.rawGlyphsData)
        THEN [self |-> self,
              result |-> Raise("IndexError", "list assignment index out of range")]
        ELSE [self |-> [_writeRawFontData(stored) EXCEPT
                           !.parsedGlyphNames = @ \ {frame.glyphName}],
              result |-> Return(None)]

putGlyphConverted(self, frame, converted) ==
    IF converted.err # "" THEN [self |-> self, result |-> converted]
    ELSE putGlyphStore(self, frame,
            _getRawData([converted.value EXCEPT !.unicodes =
                [i \in DOMAIN frame.codePoints |-> hex04X(frame.codePoints[i])]]))

_putGlyphFinish(self, frame) ==
    putGlyphConverted(self, frame, _variableGlyphToGSGlyph(frame.glyph, frame.gsGlyph))

putGlyphBegun(begun) ==
    IF begun.result.err # "" THEN [self |-> begun.self, result |-> begun.result]
    ELSE _putGlyphFinish(begun.self, begun.frame)

_putGlyph(self, glyphName, glyph, codePoints) ==
    putGlyphBegun(_putGlyphBegin(self, glyphName, glyph, codePoints))

\* a glyph whose sources have got the dense locations that _getSourceLocations works
\* out for them
givenGlyphWithDenseLocations(glyph) ==
    [glyph EXCEPT !.sources =
        [i \in DOMAIN glyph.sources |->
            [glyph.sources[i] EXCEPT !.location =
                LET locs == _getSourceLocations(glyph.sources[i], glyph.axes,
                                                getDefaultLocation(glyph.axes))
                IN  Merge(locs.fontLocation, locs.glyphLocation)]]]

\* the VariableGlyph object of the caller as _putGlyph leaves it. _putGlyph and what
\* it calls take the axes, the sources, their locations, the layers and the custom
\* data of the glyph to read them: the locations are merged, split and completed
\* into dicts of their own, the layers are drawn into gsGlyph, which is a deepcopy of
\* the native glyph; no statement assigns to the glyph or to a part of it
givenGlyphAfterPut(glyph) == glyph

\* deleteGlyph: the backend it leaves and what it raises
deleteGlyph(self, glyphName) ==
    LET unmapped == [self EXCEPT !.glyphMap = DelKey(@, glyphName)]
        index == self.glyphNameToIndex[glyphName]
        rawGlyphs == DelAt(self.rawGlyphsData, index)
        deleted == [unmapped EXCEPT !.rawGlyphsData = rawGlyphs,
                                    !.gsGlyphs = DelAt(@, index),
                                    !.parsedGlyphNames = @ \ {glyphName},
                                    !.glyphNameToIndex = _updateGlyphNameToIndex(rawGlyphs)]
    IN  IF glyphName \notin DOMAIN self.glyphNameToIndex
        THEN [self |-> self,
              result |-> Raise("KeyError", "Glyph '" \o glyphName \o "' does not exist")]
        ELSE IF glyphName \notin DOMAIN self.glyphMap
        THEN [self |-> self, result |-> Raise("KeyError", glyphName)]
        ELSE IF index >= Len(self.rawGlyphsData)
        THEN [self |-> unmapped, result |-> Raise("IndexError", "list index out of range")]
        ELSE IF self.rawGlyphsData[index + 1].glyphname # glyphName
        THEN [self |-> unmapped, result |-> Raise("AssertionError", "")]
        ELSE IF index >= Len(self.gsGlyphs)
        THEN [self |-> [unmapped EXCEPT !.rawGlyphsData = rawGlyphs],
              result |-> Raise("IndexError", "list assignment index out of range")]
        ELSE [self |-> _writeRawFontData(deleted), result |-> Return(None)]

\* putGlyphMap: pass
putGlyphMap(self, value) == [self |-> self, result |-> Return(None)]

putFontInfo(self, fontInfo) ==
    [self |-> self,
     result |-> Raise("NotImplementedError",
                      "GlyphsApp Backend: Editing FontInfo is not yet implemented.")]

putSources(self, sources) ==
    [self |-> self,
     result |-> Raise("NotImplementedError",
                      "GlyphsApp Backend: Editing FontSources is not yet implemented.")]

putAxes(self, value) ==
    [self |-> self,
     result |-> Raise("NotImplementedError",
                      "GlyphsApp Backend: Editing Axes is not yet implemented.")]

putUnitsPerEm(self, value) ==
    [self |-> self,
     result |-> Raise("NotImplementedError",
                      "GlyphsApp Backend: Editing UnitsPerEm is not yet implemented.")]

putBackgroundImage(self, imageIdentifier, data) ==
    [self |-> self,
     result |-> Raise("NotImplementedError",
                      "GlyphsApp Backend: Editing BackgroundImage is not yet implemented.")]

putCustomData(self, lib) ==
    [self |-> self,
     result |-> Raise("NotImplementedError",
                      "GlyphsApp Backend: Editing CustomData is not yet implemented.")]

\* the pairs <<name1, name2>> of a kernDict: name1 -> name2 -> value
kernPairs(kernDict) ==
    UNION {{<<name1, name2>> : name2 \in DOMAIN kernDict[name1]} : name1 \in DOMAIN kernDict}

\* getattr(self.gsFont, kerningAttr, {}).get(masterId, {})
masterKernDict(self, kerningAttr, masterId) ==
    Get(Get(self.gsKerning, kerningAttr, EmptyDict), masterId, EmptyDict)

\* the pair of a kernDict under its fontra names
fontraPair(pair, gsPrefix1, gsPrefix2) ==
    << translateGroupName(pair[1], gsPrefix1, "@"), translateGroupName(pair[2], gsPrefix2, "@") >>

\* valueDicts[name1][name2].get(masterId): the value <<v>> of the pair that was
\* assigned under these names for this master, <<>> for None
valueDictGet(kernDict, gsPrefix1, gsPrefix2, names) ==
    LET hits == {pair \in kernPairs(kernDict) : fontraPair(pair, gsPrefix1, gsPrefix2) = names}
    IN  IF hits = {} THEN <<>>
        ELSE LET pair == CHOOSE pair \in hits : TRUE IN <<kernDict[pair[1]][pair[2]]>>

\* values of _gsKerningToFontraKerning over the pairs of the listed masters
fontraValues(self, kerningAttr, gsPrefix1, gsPrefix2, sourceIdentifiers, pairs) ==
    [left \in {names[1] : names \in pairs} |->
        [right \in {names[2] : names \in {names \in pairs : names[1] = left}} |->
            [i \in DOMAIN sourceIdentifiers |->
                valueDictGet(masterKernDict(self, kerningAttr, sourceIdentifiers[i]),
                             gsPrefix1, gsPrefix2, <<left, right>>)]]]

gsKerningListed(self, kerningAttr, side1, side2, gsPrefix1, gsPrefix2, sourceIdentifiers) ==
    Kerning(Get(self.kerningGroups, side1, EmptyDict),
            Get(self.kerningGroups, side2, EmptyDict),
            sourceIdentifiers,
            fontraValues(self, kerningAttr, gsPrefix1, gsPrefix2, sourceIdentifiers,
                         UNION {{fontraPair(pair, gsPrefix1, gsPrefix2) :
                                    pair \in kernPairs(masterKernDict(self, kerningAttr,
                                                                      sourceIdentifiers[i]))} :
                                i \in DOMAIN sourceIdentifiers}))

\* the masters with kerning, without the rule for the default master
kerningSourceIdentifiersWithKerning(self, kerningAttr) ==
    LET listed == SelectSeq(masters, LAMBDA gsMaster :
                     masterKernDict(self, kerningAttr, gsMaster.id) # EmptyDict)
    IN  [i \in DOMAIN listed |-> listed[i].id]

\* every master listed, with kerning or without
kerningSourceIdentifiersOfAllMasters(self, kerningAttr) ==
    [i \in DOMAIN masters |-> masters[i].id]

\* the masters with kerning and the default master, in master order
kerningSourceIdentifiers(self, kerningAttr) ==
    LET listed == SelectSeq(masters, LAMBDA gsMaster :
                     \/ masterKernDict(self, kerningAttr, gsMaster.id) # EmptyDict
                     \/ gsMaster.id = defaultMasterID)
    IN  [i \in DOMAIN listed |-> listed[i].id]

_gsKerningToFontraKerning(self, kerningAttr, side1, side2) ==
    gsKerningListed(self, kerningAttr, side1, side2,
                    GS_KERN_GROUP_PREFIXES[side1], GS_KERN_GROUP_PREFIXES[side2],
                    kerningSourceIdentifiers(self, kerningAttr))

\* a Kerning is in the answer when it has values or groups
hasKerning(kerning) ==
    \/ kerning.values # EmptyDict
    \/ kerning.groupsSide1 # EmptyDict
    \/ kerning.groupsSide2 # EmptyDict

kerningOfTypes(kerningLTR, kerningVertical) ==
    [kernType \in (IF hasKerning(kerningLTR) THEN {"kern"} ELSE {}) \cup
                  (IF hasKerning(kerningVertical) THEN {"vkrn"} ELSE {}) |->
        IF kernType = "kern" THEN kerningLTR ELSE kerningVertical]

getKerning(self) ==
    kerningOfTypes(_gsKerningToFontraKerning(self, "kerning", "left", "right"),
                   _gsKerningToFontraKerning(self, _verticalKerningAttr(self), "top", "bottom"))

\* a value list of a Kerning holds <<v>> for the number v and <<>> for None;
\* kerning.get(kernType) is <<kerning>>, or <<>> for None
kerningGet(kerning, kernType) ==
    IF kernType \in DOMAIN kerning THEN <<kerning[kernType]>> ELSE <<>>

\* what the loop over zip(sourceIdentifiers, values) assigns last to the master
zippedValue(sourceIdentifiers, values, masterId) ==
    LET hits == {i \in DOMAIN sourceIdentifiers \cap DOMAIN values :
                    sourceIdentifiers[i] = masterId /\ values[i] # <<>>}
    IN  IF hits = {} THEN <<>>
        ELSE values[CHOOSE i \in hits : \A j \in hits : j <= i]

\* gsPrefix + name[1:] of a group name, the name of a glyph as it is
gsGroupName(name, gsPrefix) ==
    IF StartsWith(name, "@") THEN gsPrefix \o SubSeq(name, 2, Len(name)) ELSE name

\* kerningPerSource[masterId] over the pairs that have a value for the master
sourceKernDict(kerning, gsPrefix1, gsPrefix2, masterId, kept) ==
    [name1 \in {gsGroupName(pair[1], gsPrefix1) : pair \in kept} |->
        [name2 \in {gsGroupName(pair[2], gsPrefix2) :
                       pair \in {pair \in kept : gsGroupName(pair[1], gsPrefix1) = name1}} |->
            LET pair == CHOOSE pair \in kept : /\ gsGroupName(pair[1], gsPrefix1) = name1
                                               /\ gsGroupName(pair[2], gsPrefix2) = name2
            IN  zippedValue(kerning.sourceIdentifiers, kerning.values[pair[1]][pair[2]],
                            masterId)[1]]]

\* the OrderedDict over all the masters
kerningPerSource(kerning, gsPrefix1, gsPrefix2) ==
    [masterId \in masterIds |->
        sourceKernDict(kerning, gsPrefix1, gsPrefix2, masterId,
                       {pair \in kernPairs(kerning.values) :
                           zippedValue(kerning.sourceIdentifiers,
                                       kerning.values[pair[1]][pair[2]], masterId) # <<>>})]

kerningCleared(self, kerningAttr, side1, side2) ==
    [self EXCEPT !.gsKerning = SetKey(self.gsKerning, kerningAttr, EmptyDict),
                 !.kerningGroups = SetKey(SetKey(self.kerningGroups, side1, EmptyDict),
                                          side2, EmptyDict)]

kerningSet(self, kerning, kerningAttr, side1, side2) ==
    [self EXCEPT !.gsKerning =
                     SetKey(self.gsKerning, kerningAttr,
                            kerningPerSource(kerning, GS_KERN_GROUP_PREFIXES[side1],
                                             GS_KERN_GROUP_PREFIXES[side2])),
                 !.kerningGroups = SetKey(SetKey(self.kerningGroups, side1, kerning.groupsSide1),
                                          side2, kerning.groupsSide2)]

_fontraKerningToGSKerning(self, kerning, kerningAttr, side1, side2) ==
    IF kerning = <<>>
    THEN [self |-> kerningCleared(self, kerningAttr, side1, side2), result |-> Return(None)]
    ELSE IF kerningAttr = "vertKerning"
    THEN [self |-> self,
          result |-> Raise("GlyphsBackendError",
                 "Writing vertical kerning is not supported for the Glyphs 2 format")]
    ELSE IF Range(kerning[1].sourceIdentifiers) \ masterIds # {}
    THEN [self |-> self,
          result |-> Raise("GlyphsBackendError",
                 "Can't write kerning, found unknown source identifiers: "
                 \o Join(", ", Sorted(Range(kerning[1].sourceIdentifiers) \ masterIds)))]
    ELSE [self |-> kerningSet(self, kerning[1], kerningAttr, side1, side2),
          result |-> Return(None)]

\* the first group of the side that lists the glyph, None without one; the groups of
\* the model list a glyph once per side, so that the order of the dict plays no part
newGroupName(groups, glyphName) ==
    LET hits == {groupName \in DOMAIN groups : glyphName \in Range(groups[groupName])}
    IN  IF hits = {} THEN None ELSE CHOOSE groupName \in hits : TRUE

\* the group attributes of a glyph record after _updateKerningGroups; every side is a
\* key of self.kerningGroups once _fontraKerningToGSKerning has run for both kinds
updatedKernGroups(self, glyphData, sideAttrs) ==
    LET new(k) == newGroupName(Get(self.kerningGroups, sideAttrs[k][1], EmptyDict),
                               glyphData.glyphname)
        set == {k \in DOMAIN sideAttrs : new(k) \notin {None, ""}}
        attrs == {sideAttrs[k][2] : k \in DOMAIN sideAttrs}
    IN  [a \in (DOMAIN glyphData.kernGroups \ attrs) \cup {sideAttrs[k][2] : k \in set} |->
            IF a \in attrs THEN new(CHOOSE k \in set : sideAttrs[k][2] = a)
            ELSE glyphData.kernGroups[a]]

\* currentGroupName != newGroupName for a side of the glyph record
kernGroupsChanged(self, glyphData, sideAttrs) ==
    \E k \in DOMAIN sideAttrs :
        Get(glyphData.kernGroups, sideAttrs[k][2], None)
            # newGroupName(Get(self.kerningGroups, sideAttrs[k][1], EmptyDict),
                           glyphData.glyphname)

_updateKerningGroups(self) ==
    [self EXCEPT
        !.rawGlyphsData =
            [i \in DOMAIN self.rawGlyphsData |->
                [self.rawGlyphsData[i] EXCEPT
                    !.kernGroups = updatedKernGroups(self, self.rawGlyphsData[i],
                                                     _kerningSideAttrs(self))]],
        !.parsedGlyphNames =
            self.parsedGlyphNames \ {self.rawGlyphsData[i].glyphname :
                i \in {i \in DOMAIN self.rawGlyphsData :
                          kernGroupsChanged(self, self.rawGlyphsData[i],
                                            _kerningSideAttrs(self))}}]

\* _writeFontData: the font is written from self.gsFont, the glyphs from
\* rawGlyphsData; the writer knows the attributes kerning and kerningVertical
_writeFontDataEnd(self, originalGlyphs) ==
    [self EXCEPT !.fileKerning = [kerning |-> Get(self.gsKerning, "kerning", EmptyDict),
                                  kerningVertical |->
                                      Get(self.gsKerning, "kerningVertical", EmptyDict)],
                 !.fileGlyphs = self.rawGlyphsData,
                 !.gsGlyphs = originalGlyphs]

\* the first two lines of _writeFontData: self.gsFont.glyphs is the empty list
\* until the font is written
_writeFontDataBegin(self) == [self EXCEPT !.gsGlyphs = <<>>]

_writeFontData(self) == _writeFontDataEnd(_writeFontDataBegin(self), self.gsGlyphs)

putKerningWritten(vertical) ==
    IF vertical.result.err # "" THEN vertical
    ELSE [self |-> _writeFontData(_updateKerningGroups(vertical.self)),
          result |-> Return(None)]

putKerningVertical(horizontal, kerning) ==
    IF horizontal.result.err # "" THEN horizontal
    ELSE putKerningWritten(
             _fontraKerningToGSKerning(horizontal.self, kerningGet(kerning, "vkrn"),
                                       _verticalKerningAttr(horizontal.self), "top", "bottom"))

\* _putKerning up to the vertical kerning: the kern types and the horizontal kerning
_putKerningBegin(self, kerning) ==
    IF DOMAIN kerning \ {"kern", "vkrn"} # {}
    THEN [self |-> self,
          result |-> Raise("GlyphsBackendError",
                 "GlyphsApp Backend: '"
                 \o Join(", ", Sorted(DOMAIN kerning \ {"kern", "vkrn"}))
                 \o "' kern type(s) not supported.")]
    ELSE _fontraKerningToGSKerning(self, kerningGet(kerning, "kern"),
                                   "kerning", "left", "right")

\* the rest of _putKerning: the vertical kerning, the groups, the file
_putKerningFinish(self, kerning) ==
    putKerningVertical([self |-> self, result |-> Return(None)], kerning)

_putKerning(self, kerning) ==
    putKerningVertical(_putKerningBegin(self, kerning), kerning)

\* what glyphsLib makes of a feature text: the text is kept as it is, and a text
\* that ends within a block does not parse
parsesAsFeatures(text) == ~EndsWith(text, "{")

\* _putFeatures up to the conversion: the language, and the features of the font
\* are deleted
_putFeaturesBegin(self, features) ==
    IF features.language # "fea"
    THEN [self |-> self,
          result |-> Raise("NotImplementedError",
                 "GlyphsApp Backend: skip writing features in unsupported language: '"
                 \o features.language \o "'")]
    ELSE [self |-> [self EXCEPT !.gsFeatures = NoFeatures], result |-> Return(None)]

\* the rest of _putFeatures: the conversion over the names of self.glyphNameToIndex
\* and the file
_putFeaturesFinish(self, features) ==
    IF ~parsesAsFeatures(features.text)
    THEN [self |-> self,
          result |-> Raise("GlyphsBackendError",
                           "GlyphsApp Backend: Error while parsing features: ")]
    ELSE [self |-> _writeFontData([self EXCEPT !.gsFeatures = features.text]),
          result |-> Return(None)]

putFeaturesBegun(begun, features) ==
    IF begun.result.err # "" THEN begun ELSE _putFeaturesFinish(begun.self, features)

_putFeatures(self, features) == putFeaturesBegun(_putFeaturesBegin(self, features), features)

(***************************************************************************)
(* The states of the backend and the calls of its caller                   *)
(***************************************************************************)
Self ==
    [glyphMap |-> glyphMap, glyphNameToIndex |-> glyphNameToIndex,
     rawGlyphsData |-> rawGlyphsData, gsGlyphs |-> gsGlyphs,
     parsedGlyphNames |-> parsedGlyphNames, fileGlyphs |-> fileGlyphs,
     format_version |-> format_version, gsKerning |-> gsKerning,
     kerningGroups |-> kerningGroups, fileKerning |-> fileKerning,
     gsFeatures |-> gsFeatures]

\* the backend becomes self
Become(self) ==
    /\ glyphMap' = self.glyphMap
    /\ glyphNameToIndex' = self.glyphNameToIndex
    /\ rawGlyphsData' = self.rawGlyphsData
    /\ gsGlyphs' = self.gsGlyphs
    /\ parsedGlyphNames' = self.parsedGlyphNames
    /\ fileGlyphs' = self.fileGlyphs

\* the call op(glyphName, ...) has returned or raised result
Returned(op, glyphName, result) ==
    last' = [n |-> last.n + 1, op |-> op, glyphName |-> glyphName,
             err |-> result.err, msg |-> result.msg,
             value |-> IF op \in {"getGlyph", "getKerning"} /\ result.err = ""
                       THEN result.value ELSE NoGlyph]

\* the call op(glyphName, ...) has left the backend out.self and returned or raised
\* out.result
Called(op, glyphName, out) ==
    /\ Become(out.self)
    /\ Returned(op, glyphName, out.result)

NoCall == [n |-> 0, op |-> "", glyphName |-> "", err |-> "", msg |-> "", value |-> NoGlyph]
NoTask == "<no task>"
NothingHeld ==
    [stage |-> "none", glyphName |-> "", glyph |-> NoGlyph, edit |-> "none",
     given |-> NoGlyph]

\* a backend that was opened from this file and has served no call yet
Opened(file) ==
    LET self == _setupFromPath(file)
    IN  /\ glyphMap = self.glyphMap
        /\ glyphNameToIndex = self.glyphNameToIndex
        /\ rawGlyphsData = self.rawGlyphsData
        /\ gsGlyphs = self.gsGlyphs
        /\ parsedGlyphNames = self.parsedGlyphNames
        /\ fileGlyphs = self.fileGlyphs
        /\ last = NoCall
        /\ held = NothingHeld

\* no kerning in the font, no call in flight
Quiet ==
    /\ format_version = 3
    /\ gsKerning = NoKerning
    /\ kerningGroups = EmptyDict
    /\ fileKerning = NoKerning
    /\ gsFeatures = NoFeatures
    /\ writeLock = NoTask
    /\ tasks = EmptyDict

(***************************************************************************)
(* Glyphs as a .glyphs file holds them                                     *)
(***************************************************************************)
MaxExtraLayers == 1

\* the glyph axis of a smart component
HeightAxis == [name |-> "Height", bottomValue |-> 0, topValue |-> 100]

poleMapping(pole) == IF pole = None THEN EmptyDict ELSE ("Height" :> pole)

\* the layer of a master
masterLayer(masterId, pole) ==
    [newGSLayer(masterId) EXCEPT !.associatedMasterId = masterId,
                                 !.smartComponentPoleMapping = poleMapping(pole)]

\* a layer that is not a master's: a named one ("alt") or a brace layer at the
\* given coordinates
extraLayer(layerId, masterId, kind, pole) ==
    [newGSLayer(layerId) EXCEPT
        !.associatedMasterId = masterId,
        !.name = IF kind = "alt" THEN "alt" ELSE "{166}",
        !.attributes = IF kind = "brace" THEN ("coordinates" :> <<166>>) ELSE EmptyDict,
        !.paths = 1,
        !.smartComponentPoleMapping = poleMapping(pole)]

ExtraLayerIds == <<"#x1", "#x2", "#x3">>

\* the glyphs the files of the model hold: every master has its layer, up to
\* MaxExtraLayers further layers, with or without a glyph axis
NativeGlyphs(glyphName) ==
    LET Poles(smart) == IF smart THEN {"MIN", "MAX"} ELSE {None}
        Extra(smart, k) == {extraLayer(ExtraLayerIds[k], m, kind, pole) :
                               m \in masterIds, kind \in {"alt", "brace"}, pole \in Poles(smart)}
        Extras(smart) == UNION {
            {e \in [1..n -> UNION {Extra(smart, k) : k \in 1..n}] :
                 \A k \in 1..n : e[k] \in Extra(smart, k)} : n \in 0..MaxExtraLayers}
        Masters(smart) == {<<masterLayer("#mL", p[1]), masterLayer("#mR", p[2]),
                             masterLayer("#mB", p[3])>> :
                               p \in Poles(smart) \X Poles(smart) \X Poles(smart)}
    IN  UNION {
          {[newGSGlyph(glyphName) EXCEPT
               !.unicodes = <<"0041">>,
               !.smartComponentAxes = IF smart THEN <<HeightAxis>> ELSE <<>>,
               !.layers = m \o e] : m \in Masters(smart), e \in Extras(smart)}
          : smart \in BOOLEAN}

(***************************************************************************)
(* What a caller does to a glyph between reading and writing it            *)
(***************************************************************************)
\* a layer as Fontra draws one
fontraLayer(path, components) ==
    [glyph |-> [xAdvance |-> 500, path |-> path, components |-> components],
     customData |-> EmptyDict]

glyphSource(name, location, layerName) ==
    [name |-> name, location |-> location, layerName |-> layerName,
     locationBase |-> None, customData |-> EmptyDict]

hasAxis(glyph, axisName) == \E i \in DOMAIN glyph.axes : glyph.axes[i].name = axisName

\* the sources of the glyph whose location is no master's
braceSources(glyph) ==
    {i \in DOMAIN glyph.sources :
        masterIDByLocationTuple(
            makeDenseLocation(splitLocation(_getSourceLocation(glyph.sources[i]),
                                            glyph.axes).fontLocation,
                              defaultLocation)) = None}

\* a layer that belongs to no source
addLayerWithoutSource(glyph) ==
    [glyph EXCEPT !.layers = SetKey(@, "orphan", fontraLayer(2, <<>>))]

\* the glyph axis of this name gets the default 50 between 0 and 100; the axis is
\* added when the glyph has none of this name
setAxisDefault(glyph, axisName, defaultValue) ==
    LET axis == [name |-> axisName, minValue |-> 0, defaultValue |-> defaultValue,
                 maxValue |-> 100]
    IN  IF hasAxis(glyph, axisName)
        THEN [glyph EXCEPT !.axes = [i \in DOMAIN glyph.axes |->
                                        IF glyph.axes[i].name = axisName THEN axis
                                        ELSE glyph.axes[i]]]
        ELSE [glyph EXCEPT !.axes = Append(@, axis)]

\* a component, skewed or not, in the layer of the first source
addComponent(glyph, skewX) ==
    LET layerName == glyph.sources[1].layerName
        layer == glyph.layers[layerName]
    IN  [glyph EXCEPT !.layers = SetKey(@, layerName,
            [layer EXCEPT !.glyph.components = Append(@, [name |-> "beta", skewX |-> skewX])])]

\* a further source with a layer of its own
addSource(glyph, name, location, layerName) ==
    [glyph EXCEPT !.sources = Append(@, glyphSource(name, location, layerName)),
                  !.layers = SetKey(@, layerName, fontraLayer(3, <<>>))]

\* a further source whose layer the glyph does not have
addSourceWithoutLayer(glyph) ==
    [glyph EXCEPT !.sources = Append(@, glyphSource("lost", ("Weight" :> 17), "lost"))]

\* a secondary layer of the first source that is at no master's location
addLayerToBraceSource(glyph, suffix) ==
    LET source == glyph.sources[Min(braceSources(glyph))]
    IN  [glyph EXCEPT !.layers = SetKey(@, source.layerName \o "^" \o suffix,
                                        fontraLayer(4, <<>>))]

\* the layers that getGlyph has read from a native layer at a location that another
\* layer had taken: they are no source's layer and carry the id of their native layer
shadowLayers(glyph) ==
    {key \in DOMAIN glyph.layers :
        /\ "com.glyphsapp.layer.layerId" \in DOMAIN glyph.layers[key].customData
        /\ \A i \in DOMAIN glyph.sources : glyph.sources[i].layerName # key}

\* a further source at Weight 120, and the first shadow layer of the glyph becomes a
\* secondary layer of that source, under its own suffix
moveLayerToBraceSource(glyph) ==
    LET key == Sorted(shadowLayers(glyph))[1]
        added == addSource(glyph, "brace", ("Weight" :> 120), "brace")
    IN  [added EXCEPT !.layers = SetKey(DelKey(@, key), "brace^" \o Split1(key, "^")[2],
                                        glyph.layers[key])]

\* the caller names the layer of the first source itself: the layer and its
\* secondary layers move to the new name, and the source gets one more secondary
\* layer, a sketch
nameLayersOfFirstSource(glyph, layerName) ==
    LET old == glyph.sources[1].layerName
        renamed(key) == IF key = old THEN layerName
                        ELSE IF StartsWith(key, old \o "^")
                        THEN layerName \o SubSeq(key, Len(old) + 1, Len(key))
                        ELSE key
        moved == [key \in {renamed(k) : k \in DOMAIN glyph.layers} |->
                     glyph.layers[CHOOSE k \in DOMAIN glyph.layers : renamed(k) = key]]
    IN  [glyph EXCEPT
            !.sources = SetAt(@, 1, [glyph.sources[1] EXCEPT !.layerName = layerName]),
            !.layers = SetKey(moved, layerName \o "^sketch", fontraLayer(5, <<>>))]

\* the caller gives the source at this position another name
renameSource(glyph, i, name) ==
    [glyph EXCEPT !.sources = SetAt(@, i, [glyph.sources[i] EXCEPT !.name = name])]

\* the caller deletes the last source with its layers
deleteLastSource(glyph) ==
    LET layerName == glyph.sources[Len(glyph.sources)].layerName
    IN  [glyph EXCEPT
            !.sources = SubSeq(@, 1, Len(@) - 1),
            !.layers = [key \in {k \in DOMAIN glyph.layers :
                                    k # layerName /\ ~StartsWith(k, layerName \o "^")} |->
                           glyph.layers[key]]]

\* the glyph axes a caller names
AxisNames == {"Height", "Depth"}

\* the edits of the model, each with the glyphs it applies to
Edits(glyph) ==
    {"none", "layerWithoutSource", "component", "skewedComponent", "braceSource",
     "ownLayerName", "sourceAtSameLocation",
     "sourceName:own", "sourceName:slash", "braceSourceNamedAsMaster",
     "sourceDeleted",
     "layerWithoutSource+axisDefault:Height", "axisDefault:Height+Depth",
     "axisDefault:Depth+Height", "sourceWithoutLayer+layerWithoutSource",
     "sourceWithoutLayer+axisDefault:Height"}
    \cup {"axisDefault:" \o a : a \in AxisNames}
    \cup {"axisAtMin:" \o a : a \in {a \in AxisNames : ~hasAxis(glyph, a)}}
    \cup (IF hasAxis(glyph, "Height") THEN {"intermediateSource"} ELSE {})
    \cup (IF braceSources(glyph) # {} THEN {"layoutLayerOnBrace", "backgroundOnBrace"} ELSE {})
    \cup (IF shadowLayers(glyph) # {} THEN {"layerToBraceSource"} ELSE {})

Edit(edit, glyph) ==
    CASE edit = "none" -> glyph
      [] edit = "layerWithoutSource" -> addLayerWithoutSource(glyph)
      [] edit = "component" -> addComponent(glyph, 0)
      [] edit = "skewedComponent" -> addComponent(glyph, 10)
      [] edit = "braceSource" -> addSource(glyph, "brace", ("Weight" :> 120), "brace")
      [] edit = "intermediateSource" -> addSource(glyph, "mid", ("Height" :> 50), "mid")
      [] edit = "layoutLayerOnBrace" -> addLayerToBraceSource(glyph, "layout")
      [] edit = "backgroundOnBrace" -> addLayerToBraceSource(glyph, "background")
      [] edit = "layerToBraceSource" -> moveLayerToBraceSource(glyph)
      [] edit = "ownLayerName" -> nameLayersOfFirstSource(glyph, "first")
      [] edit = "sourceDeleted" -> deleteLastSource(glyph)
      [] edit = "sourceName:own" -> renameSource(glyph, 1, "source#1")
      [] edit = "sourceName:slash" -> renameSource(glyph, 1, masters[1].name \o " / narrow")
      [] edit = "braceSourceNamedAsMaster" ->
            addSource(glyph, "Regular", ("Weight" :> 120), "#u9")
      [] edit = "sourceAtSameLocation" ->
            addSource(glyph, "twin", glyph.sources[1].location, "twin")
      [] edit = "layerWithoutSource+axisDefault:Height" ->
            addLayerWithoutSource(setAxisDefault(glyph, "Height", 50))
      [] edit = "axisDefault:Height+Depth" ->
            setAxisDefault(setAxisDefault(glyph, "Height", 50), "Depth", 50)
      [] edit = "axisDefault:Depth+Height" ->
            setAxisDefault(setAxisDefault(glyph, "Depth", 50), "Height", 50)
      [] edit = "sourceWithoutLayer+layerWithoutSource" ->
            addSourceWithoutLayer(addLayerWithoutSource(glyph))
      [] edit = "sourceWithoutLayer+axisDefault:Height" ->
            addSourceWithoutLayer(setAxisDefault(glyph, "Height", 50))
      [] edit \in {"axisDefault:" \o a : a \in AxisNames} ->
            setAxisDefault(glyph, SubSeq(edit, 13, Len(edit)), 50)
      [] edit \in {"axisAtMin:" \o a : a \in AxisNames} ->
            setAxisDefault(glyph, SubSeq(edit, 11, Len(edit)), 0)

(***************************************************************************)
(* The round trip of a caller: getGlyph, putGlyph of what it got, edited   *)
(* or not, and getGlyph again                                              *)
(***************************************************************************)
RoundTripInit ==
    /\ \E gsGlyph \in NativeGlyphs("alpha") : Opened(<<_getRawData(gsGlyph)>>)
    /\ Quiet

RoundTripGetGlyph ==
    /\ held.stage = "none"
    /\ \E glyphName \in DOMAIN glyphMap :
          /\ Called("getGlyph", glyphName, getGlyph(Self, glyphName))
          /\ held' = [held EXCEPT !.stage = "read", !.glyphName = glyphName,
                                  !.glyph = last'.value]
    /\ UNCHANGED <<fontVars, writeLock, tasks>>

RoundTripPutGlyph ==
    /\ held.stage = "read"
    /\ held.glyph # NoGlyph
    /\ \E edit \in Edits(held.glyph[1]) :
          /\ Called("putGlyph", held.glyphName,
                    _putGlyph(Self, held.glyphName, Edit(edit, held.glyph[1]),
                              glyphMap[held.glyphName]))
          /\ held' = [held EXCEPT !.stage = "written", !.edit = edit,
                                  !.given = <<givenGlyphAfterPut(Edit(edit, held.glyph[1]))>>]
    /\ UNCHANGED <<fontVars, writeLock, tasks>>

RoundTripGetGlyphAgain ==
    /\ held.stage = "written"
    /\ last.err = ""
    /\ Called("getGlyph", held.glyphName, getGlyph(Self, held.glyphName))
    /\ held' = [held EXCEPT !.stage = "reread"]
    /\ UNCHANGED <<fontVars, writeLock, tasks>>

RoundTripNext == RoundTripGetGlyph \/ RoundTripPutGlyph \/ RoundTripGetGlyphAgain

SpecRoundTrip == RoundTripInit /\ [][RoundTripNext]_vars

\* the glyph that was handed to the putGlyph of the round trip
putGlyphArgument == Edit(held.edit, held.glyph[1])

\* what a handle opened from the written file answers to getGlyph(glyphName)
reopenedGetGlyph(glyphName) == getGlyph(_setupFromPath(fileGlyphs), glyphName).result

\* C1: a glyph that was read, written back unchanged with its own code points and
\* read again is the glyph that was read first
RoundTripIsIdentity ==
    held.edit = "none" =>
        /\ held.stage = "written" => last.err = ""
        /\ held.stage = "reread" => last.err = "" /\ last.value = held.glyph

(***************************************************************************)
(* The store: one caller that calls getGlyph, putGlyph and deleteGlyph,    *)
(* one call after the other                                                *)
(***************************************************************************)
MaxCalls == 3

GlyphNames == {"alpha", "beta"}

\* a glyph with the layers of the three masters, and with the component B in the
\* layer of the Regular master when it is composite
plainGlyph(glyphName, composite) ==
    [newGSGlyph(glyphName) EXCEPT
        !.unicodes = <<"0041">>,
        !.layers = <<masterLayer("#mL", None),
                     IF composite
                     THEN [masterLayer("#mR", None) EXCEPT !.components = <<[name |-> "beta"]>>]
                     ELSE masterLayer("#mR", None),
                     masterLayer("#mB", None)>>]

\* the plain glyph with a brace layer of the Bold master
braceGlyph(glyphName) ==
    [plainGlyph(glyphName, FALSE) EXCEPT
        !.layers = @ \o <<extraLayer("#x1", "#mB", "brace", None)>>]

\* a glyph with the glyph axis Height, the layer of the Bold master at its maximum
smartGlyph(glyphName) ==
    [newGSGlyph(glyphName) EXCEPT
        !.unicodes = <<"0041">>,
        !.smartComponentAxes = <<HeightAxis>>,
        !.layers = <<masterLayer("#mL", "MIN"), masterLayer("#mR", "MIN"),
                     masterLayer("#mB", "MAX")>>]

\* the files the store is opened from
Files ==
    {<<_getRawData(plainGlyph("alpha", FALSE))>>,
     <<_getRawData(plainGlyph("alpha", TRUE)), _getRawData(plainGlyph("beta", FALSE))>>}

\* the VariableGlyph a caller gets for this native glyph
asRead(gsGlyph) == gsGlyphToVariableGlyph(gsGlyph.name, gsGlyph).value

\* what a caller hands to putGlyph(glyphName, ...): three glyphs the backend can
\* write and one glyph for each of its rejections
PutArguments(glyphName) ==
    LET plain == asRead(plainGlyph(glyphName, FALSE))
        brace == asRead(braceGlyph(glyphName))
        smart == asRead(smartGlyph(glyphName))
        arg(glyph, codePoints) == [glyph |-> glyph, codePoints |-> codePoints]
    IN  {arg(plain, <<65>>), arg(plain, <<>>), arg(brace, <<65>>), arg(smart, <<66>>),
         arg(Edit("layerWithoutSource", plain), <<>>),
         arg(Edit("axisDefault:Height", plain), <<65>>),
         arg(Edit("braceSource", smart), <<65>>),
         arg(Edit("intermediateSource", smart), <<>>),
         arg(Edit("skewedComponent", plain), <<66>>),
         arg(Edit("layoutLayerOnBrace", brace), <<>>)}

Init ==
    /\ \E file \in Files : Opened(file)
    /\ Quiet

GetGlyph(glyphName) ==
    /\ last.n < MaxCalls
    /\ Called("getGlyph", glyphName, getGlyph(Self, glyphName))
    /\ UNCHANGED <<fontVars, writeLock, tasks, held>>

PutGlyph(glyphName) ==
    /\ last.n < MaxCalls
    /\ \E arg \in PutArguments(glyphName) :
          Called("putGlyph", glyphName,
                 _putGlyph(Self, glyphName, arg.glyph, arg.codePoints))
    /\ UNCHANGED <<fontVars, writeLock, tasks, held>>

DeleteGlyph(glyphName) ==
    /\ last.n < MaxCalls
    /\ Called("deleteGlyph", glyphName, deleteGlyph(Self, glyphName))
    /\ UNCHANGED <<fontVars, writeLock, tasks, held>>

Next ==
    \E glyphName \in GlyphNames :
        \/ GetGlyph(glyphName)
        \/ PutGlyph(glyphName)
        \/ DeleteGlyph(glyphName)

Spec == Init /\ [][Next]_vars

\* the dense location of a source: its location completed with the defaults of the
\* font axes and of the glyph axes
denseLocation(glyph, source) ==
    makeDenseLocation(source.location,
                      Merge(defaultLocation, getDefaultLocation(glyph.axes)))

\* the glyph the last getGlyph has returned
gotGlyph == last.op = "getGlyph" /\ last.err = "" /\ last.value # NoGlyph

\* C6: no two sources of a glyph that getGlyph returns have the same dense location
SourcesHaveDistinctLocations ==
    gotGlyph =>
        \A i, j \in DOMAIN last.value[1].sources :
            i # j => denseLocation(last.value[1], last.value[1].sources[i])
                     # denseLocation(last.value[1], last.value[1].sources[j])

\* the putGlyph of the round trip has just returned or raised
putGlyphCalled == last.op = "putGlyph" /\ held.stage = "written"

\* the glyph axes whose default value is neither their minimum nor their maximum
axesWithDefaultBetween(glyph) ==
    {i \in DOMAIN glyph.axes :
        glyph.axes[i].defaultValue \notin {glyph.axes[i].minValue, glyph.axes[i].maxValue}}

\* the layer keys that are neither the layerName of a source nor
\* <layerName of a source>^<suffix>
layersWithoutSource(glyph) ==
    {key \in DOMAIN glyph.layers :
        \A i \in DOMAIN glyph.sources :
            /\ key # glyph.sources[i].layerName
            /\ ~StartsWith(key, glyph.sources[i].layerName \o "^")}

\* the sources whose layerName is no layer of the glyph
sourcesWithoutLayer(glyph) ==
    {i \in DOMAIN glyph.sources : glyph.sources[i].layerName \notin DOMAIN glyph.layers}

axisDefaultMessage(axisName) ==
    "GlyphsApp Backend: Glyph axis '" \o axisName \o "' defaultValue must be at MIN or MAX."

\* C7 (as the claim states it): putGlyph of a glyph with a glyph axis whose default
\* is neither its minimum nor its maximum fails with GlyphsBackendError and the
\* message names that axis, whichever axis it is
EveryAxisDefaultBetweenIsNamed ==
    putGlyphCalled =>
        \A i \in axesWithDefaultBetween(putGlyphArgument) :
            /\ last.err = "GlyphsBackendError"
            /\ last.msg = axisDefaultMessage(putGlyphArgument.axes[i].name)

\* C7 (amended): when every source has its layer and every layer has its source,
\* putGlyph of a glyph with a glyph axis whose default is neither its minimum nor
\* its maximum fails with GlyphsBackendError and the message names the first such
\* axis; when every default is at the minimum or the maximum no putGlyph fails
\* with that message
FirstAxisDefaultBetweenIsNamed ==
    putGlyphCalled =>
        LET glyph == putGlyphArgument
            between == axesWithDefaultBetween(glyph)
        IN  /\ (/\ between # {}
                /\ sourcesWithoutLayer(glyph) = {}
                /\ layersWithoutSource(glyph) = {})
               => /\ last.err = "GlyphsBackendError"
                  /\ last.msg = axisDefaultMessage(glyph.axes[Min(between)].name)
            /\ between = {} => ~EndsWith(last.msg, "defaultValue must be at MIN or MAX.")

\* C7 witness: a putGlyph with two such axes, one existing and one added, was called
TwoAxisDefaultsBetweenWerePut ==
    /\ putGlyphCalled
    /\ held.edit = "axisDefault:Depth+Height"
    /\ Len(held.glyph[1].axes) = 1
    /\ last.msg = axisDefaultMessage("Height")

layerWithoutSourceMessage == "GlyphsApp Backend: Layer without glyph source is not supported."

\* C10 (as the claim states it): putGlyph of a glyph with a layer that belongs to no
\* source fails with GlyphsBackendError 'Layer without glyph source is not supported'
LayerWithoutSourceAlwaysRejected ==
    (putGlyphCalled /\ layersWithoutSource(putGlyphArgument) # {}) =>
        /\ last.err = "GlyphsBackendError"
        /\ last.msg = layerWithoutSourceMessage

\* C10 (amended): when every source of the glyph has its layer, putGlyph of a glyph
\* with a layer that belongs to no source fails with GlyphsBackendError 'Layer
\* without glyph source is not supported', and neither the raw records nor the file
\* change
LayerWithoutSourceRejected ==
    [][(held.stage = "read" /\ held'.stage = "written") =>
          LET glyph == Edit(held'.edit, held.glyph[1])
          IN  (layersWithoutSource(glyph) # {} /\ sourcesWithoutLayer(glyph) = {}) =>
                  /\ last'.err = "GlyphsBackendError"
                  /\ last'.msg = layerWithoutSourceMessage
                  /\ rawGlyphsData' = rawGlyphsData
                  /\ fileGlyphs' = fileGlyphs]_vars

\* C10 witness: a glyph with the layer "orphan", which no source owns, was put
LayerWithoutSourceWasPut ==
    /\ putGlyphCalled
    /\ held.edit = "layerWithoutSource"
    /\ "orphan" \in layersWithoutSource(putGlyphArgument)
    /\ last.err = "GlyphsBackendError"

\* the messages of the six rejections of putGlyph
putGlyphRejections ==
    {layerWithoutSourceMessage,
     "GlyphsApp Backend: Brace layers within smart glyphs are not yet implemented.",
     "Intermediate layers within smart glyphs are not yet implemented",
     "GlyphsApp Backend: Does not support skewing of components, yet.",
     "A brace layer can only have an additional source layer named 'background'"}
    \cup {axisDefaultMessage(axisName) : axisName \in AxisNames}

\* this step is a call of putGlyph that one of the six rejections has ended
putGlyphWasRejected ==
    /\ last'.n = last.n + 1
    /\ last'.op = "putGlyph"
    /\ last'.msg \in putGlyphRejections

\* C3: a putGlyph that was rejected leaves the glyph map, the name-to-index table,
\* the raw glyph records and the native glyph list as they were
RejectedPutGlyphChangesNothing ==
    [][putGlyphWasRejected =>
          /\ glyphMap' = glyphMap
          /\ glyphNameToIndex' = glyphNameToIndex
          /\ rawGlyphsData' = rawGlyphsData
          /\ gsGlyphs' = gsGlyphs]_vars

\* this step is a call of deleteGlyph for a name of the glyph map
deleteGlyphWasCalled ==
    /\ last'.n = last.n + 1
    /\ last'.op = "deleteGlyph"
    /\ last'.glyphName \in DOMAIN glyphMap

\* C9: after deleteGlyph(name) for a name of the glyph map, the glyph map, the
\* name-to-index table and the raw glyph records do not have the name, and
\* getGlyph(name) returns None, in this handle and in one opened from the file
DeleteGlyphRemovesTheGlyph ==
    [][deleteGlyphWasCalled =>
          /\ last'.glyphName \notin DOMAIN glyphMap'
          /\ last'.glyphName \notin DOMAIN glyphNameToIndex'
          /\ \A i \in DOMAIN rawGlyphsData' : rawGlyphsData'[i].glyphname # last'.glyphName
          /\ getGlyph(Self', last'.glyphName).result = Return(NoGlyph)
          /\ getGlyph(_setupFromPath(fileGlyphs'), last'.glyphName).result
                = Return(NoGlyph)]_vars

(***************************************************************************)
(* The kerning of a font of either format version: putKerning and          *)
(* getKerning on a backend over the glyphs alpha and beta                  *)
(***************************************************************************)
MaxKerningCalls == 2

\* the lists of source identifiers of the tables that are put
KerningIdentifiers ==
    {<<>>, <<"#mR">>, <<"#mL">>, <<"#mL", "#mR">>, <<"#mR", "#mL">>,
     <<"#mL", "#mR", "#mB">>, <<"X">>}

\* the value lists for n source identifiers: a number or None for each of them, and
\* the lists that are one entry short
KerningValueLists(n) ==
    UNION {[1..k -> {<<>>, <<-40>>}] : k \in {n, n - 1} \cap Nat}

\* the tables over a list of source identifiers: alpha in a group of the first side
\* or in none, no pair or the one pair of the group or of alpha with beta
KerningTablesOver(sourceIdentifiers) ==
    {Kerning(groupsSide1, EmptyDict, sourceIdentifiers, values) :
        groupsSide1 \in {EmptyDict, ("G" :> <<"alpha">>)},
        values \in {EmptyDict} \cup
                   {(left :> ("beta" :> list)) :
                       left \in {"@G", "alpha"},
                       list \in KerningValueLists(Len(sourceIdentifiers))}}

KerningTables == UNION {KerningTablesOver(ids) : ids \in KerningIdentifiers}

\* the tables that are put as vertical kerning, and next to another table
FewKerningTables ==
    {kerning \in KerningTablesOver(<<"#mR">>) \cup KerningTablesOver(<<"X">>) :
        kerning.values \in {EmptyDict, ("alpha" :> ("beta" :> << <<-40>> >>))}}

\* the arguments of putKerning
PutKerningArguments ==
    {EmptyDict}
    \cup {("kern" :> kern) : kern \in KerningTables}
    \cup {("vkrn" :> vkrn) : vkrn \in FewKerningTables}
    \cup {("kern" :> kern) @@ ("vkrn" :> vkrn) :
             kern \in FewKerningTables, vkrn \in FewKerningTables}
    \cup {("hkrn" :> kern) : kern \in FewKerningTables}

\* the files: alpha and beta without kerning, or alpha in the group G of the first
\* side with a pair of the group for the default master
KerningFiles(version) ==
    LET alpha == _getRawData(plainGlyph("alpha", FALSE))
        beta == _getRawData(plainGlyph("beta", FALSE))
        attr == kerningSideAttrs(version)[1][2]
    IN  {[glyphs |-> <<alpha, beta>>, kerning |-> NoKerning],
         [glyphs |-> <<[alpha EXCEPT !.kernGroups = (attr :> "G")], beta>>,
          kerning |-> [NoKerning EXCEPT
                          !.kerning = ("#mR" :> ("@MMK_L_G" :> ("beta" :> -10)))]]}

\* the backend becomes self, kerning included
BecomeKerning(self) ==
    /\ Become(self)
    /\ gsKerning' = self.gsKerning
    /\ kerningGroups' = self.kerningGroups
    /\ fileKerning' = self.fileKerning

\* the backend becomes self, the font included
BecomeAll(self) ==
    /\ BecomeKerning(self)
    /\ gsFeatures' = self.gsFeatures

\* the caller keeps the argument it has put
heldKerning(kerning) == [stage |-> "putKerning", kerning |-> kerning]

PutKerningCalled(out) ==
    /\ BecomeKerning(out.self)
    /\ Returned("putKerning", "", out.result)

KerningInit ==
    /\ \E version \in {2, 3} : \E file \in KerningFiles(version) :
          LET self == setupFromFile(file.glyphs, version, file.kerning)
          IN  /\ Opened(file.glyphs)
              /\ format_version = version
              /\ gsKerning = self.gsKerning
              /\ kerningGroups = self.kerningGroups
              /\ fileKerning = self.fileKerning
              /\ gsFeatures = self.gsFeatures
    /\ writeLock = NoTask
    /\ tasks = EmptyDict

PutKerning ==
    /\ last.n < MaxKerningCalls
    /\ \E kerning \in PutKerningArguments :
          /\ PutKerningCalled(_putKerning(Self, kerning))
          /\ held' = heldKerning(kerning)
    /\ UNCHANGED <<format_version, gsFeatures, writeLock, tasks>>

GetKerning ==
    /\ last.n < MaxKerningCalls
    /\ Returned("getKerning", "", Return(getKerning(Self)))
    /\ UNCHANGED <<storeVars, fontVars, writeLock, tasks, held>>

KerningNext == PutKerning \/ GetKerning

SpecKerning == KerningInit /\ [][KerningNext]_vars

\* the kerning of every master under both kerning attributes, and the groups of the
\* four sides, as the backend holds them
kerningHeld(self) ==
    [kerningAttr \in {"kerning", _verticalKerningAttr(self)} |->
        [masterId \in masterIds |-> masterKernDict(self, kerningAttr, masterId)]]

groupsHeld(self) ==
    [side \in {"left", "right", "top", "bottom"} |-> Get(self.kerningGroups, side, EmptyDict)]

\* C4: a putKerning that raises has changed nothing: the horizontal kerning, the
\* vertical kerning and the groups of the four sides are as before the call, and
\* getKerning returns what it returned before
RejectedPutKerningChangesNothing ==
    [][(last'.op = "putKerning" /\ last'.n = last.n + 1 /\ last'.err # "")
       => /\ kerningHeld(Self') = kerningHeld(Self)
          /\ groupsHeld(Self') = groupsHeld(Self)
          /\ getKerning(Self') = getKerning(Self)]_vars

\* the position of a master in the font
masterIndex(masterId) == CHOOSE i \in DOMAIN masters : masters[i].id = masterId

\* the last putKerning put a table as 'kern' and nothing else, and the source
\* identifiers of the table are masters of the font
putKernOnly ==
    /\ held.stage = "putKerning"
    /\ DOMAIN held.kerning = {"kern"}
    /\ Range(held.kerning["kern"].sourceIdentifiers) \subseteq masterIds

\* getKerning has returned the table that was put as 'kern'
gotKernThatWasPut ==
    /\ "kern" \in DOMAIN last.value
    /\ last.value["kern"] = held.kerning["kern"]

\* a table as getKerning writes one: the source identifiers in master order with the
\* default master among them, a value for each of the other masters and for each
\* pair, one entry per source identifier in each value list, and a pair or a group
normalKerning(kerning) ==
    LET ids == kerning.sourceIdentifiers
        pairs == kernPairs(kerning.values)
        list(pair) == kerning.values[pair[1]][pair[2]]
    IN  /\ \A i, j \in DOMAIN ids : i < j => masterIndex(ids[i]) < masterIndex(ids[j])
        /\ defaultMasterID \in Range(ids)
        /\ \A left \in DOMAIN kerning.values : kerning.values[left] # EmptyDict
        /\ \A pair \in pairs : /\ Len(list(pair)) = Len(ids)
                               /\ \E i \in DOMAIN ids : list(pair)[i] # <<>>
        /\ \A i \in DOMAIN ids :
              ids[i] # defaultMasterID => \E pair \in pairs : list(pair)[i] # <<>>
        /\ hasKerning(kerning)

\* C8 as stated: putKerning({'kern': K}) of a K over masters of the font, then
\* getKerning(): 'kern' is K, with its groups, its source identifiers in their order
\* and its value lists
KernRoundTripsAsPut ==
    (last.op = "getKerning" /\ putKernOnly) => gotKernThatWasPut

\* C8: the same for a K as getKerning writes one (normalKerning)
NormalKernRoundTrips ==
    (last.op = "getKerning" /\ putKernOnly /\ normalKerning(held.kerning["kern"]))
        => gotKernThatWasPut

\* a table with a master without values next to the default master was put and read
NormalKernWasPutAndGot ==
    /\ last.op = "getKerning"
    /\ putKernOnly
    /\ normalKerning(held.kerning["kern"])
    /\ Len(held.kerning["kern"].sourceIdentifiers) > 1
    /\ held.kerning["kern"].groupsSide1 # EmptyDict
    /\ gotKernThatWasPut

(***************************************************************************)
(* Writes of what the backend does not support: the edits of a glyph of a  *)
(* format-3 font (the glyph records of the model are format-3 records) and *)
(* vertical kerning on a font of either format version                     *)
(***************************************************************************)
\* the glyphs that are edited: alpha as getGlyph returns it, plain, with a brace
\* layer, and with a glyph axis
EditedGlyphs ==
    {asRead(plainGlyph("alpha", FALSE)), asRead(braceGlyph("alpha")),
     asRead(smartGlyph("alpha"))}

PutEditedGlyph ==
    /\ last.n < MaxKerningCalls
    /\ format_version = 3
    /\ \E glyph \in EditedGlyphs : \E edit \in Edits(glyph) :
          /\ Called("putGlyph", "alpha",
                    _putGlyph(Self, "alpha", Edit(edit, glyph), glyphMap["alpha"]))
          /\ held' = [stage |-> "written", glyphName |-> "alpha", glyph |-> <<glyph>>,
                      edit |-> edit, given |-> <<givenGlyphAfterPut(Edit(edit, glyph))>>]
    /\ UNCHANGED <<fontVars, writeLock, tasks>>

PutVerticalKerning ==
    /\ last.n < MaxKerningCalls
    /\ \E vkrn \in FewKerningTables :
          /\ PutKerningCalled(_putKerning(Self, ("vkrn" :> vkrn)))
          /\ held' = heldKerning(("vkrn" :> vkrn))
    /\ UNCHANGED <<format_version, gsFeatures, writeLock, tasks>>

\* the put* operations other than putGlyph, putKerning and putFeatures
OtherPuts ==
    {"putGlyphMap", "putFontInfo", "putSources", "putAxes", "putUnitsPerEm",
     "putBackgroundImage", "putCustomData"}

\* what a caller hands to them: the value the backend holds, or another one
OtherPutValues(op) ==
    CASE op = "putGlyphMap" -> {glyphMap, SetKey(glyphMap, "alpha", <<66>>)}
      [] op = "putUnitsPerEm" -> {1000, 2048}
      [] op = "putAxes" -> {axes, <<"Weight", "Width">>}
      [] op = "putSources" -> {locationByMasterID, EmptyDict}
      [] OTHER -> {EmptyDict, ("key" :> "value")}

otherPut(self, op, value) ==
    CASE op = "putGlyphMap" -> putGlyphMap(self, value)
      [] op = "putFontInfo" -> putFontInfo(self, value)
      [] op = "putSources" -> putSources(self, value)
      [] op = "putAxes" -> putAxes(self, value)
      [] op = "putUnitsPerEm" -> putUnitsPerEm(self, value)
      [] op = "putBackgroundImage" -> putBackgroundImage(self, "image", value)
      [] op = "putCustomData" -> putCustomData(self, value)

PutOther ==
    /\ last.n < MaxKerningCalls
    /\ \E op \in OtherPuts : \E value \in OtherPutValues(op) :
          Called(op, "", otherPut(Self, op, value))
    /\ UNCHANGED <<fontVars, writeLock, tasks, held>>

UnsupportedNext == PutEditedGlyph \/ PutVerticalKerning \/ PutOther

SpecUnsupported == KerningInit /\ [][UnsupportedNext]_vars

\* the last call was the putGlyph of this edit of a glyph
putEdit(edit) == last.op = "putGlyph" /\ held.stage = "written" /\ held.edit = edit

\* the last call was the putKerning of vertical kerning on a format-2 font
putVerticalOnFormat2 ==
    /\ last.op = "putKerning"
    /\ held.stage = "putKerning"
    /\ "vkrn" \in DOMAIN held.kerning
    /\ format_version = 2

MaxConcurrentCalls == 3

TaskIds == {"task1", "task2"}

\* a task that runs no call
Idle == [pc |-> "idle"]

\* the calls that take the write lock
WriteCalls ==
    UNION {{[op |-> "putGlyph", glyphName |-> glyphName,
             arg |-> [glyph |-> glyph, codePoints |-> <<65>>]] :
               glyph \in {asRead(plainGlyph(glyphName, FALSE)),
                          Edit("skewedComponent", asRead(plainGlyph(glyphName, FALSE)))}} :
           glyphName \in GlyphNames}
    \cup {[op |-> "putKerning", glyphName |-> "", arg |-> kerning] :
             kerning \in {("kern" :> Kerning(("G" :> <<"alpha">>), EmptyDict, <<"#mR">>,
                                             ("@G" :> ("beta" :> << <<-40>> >>)))),
                          ("vkrn" :> Kerning(EmptyDict, EmptyDict, <<"X">>, EmptyDict))}}
    \cup {[op |-> "putFeatures", glyphName |-> "", arg |-> features] :
             features \in {[language |-> "fea", text |-> "feature liga {} liga;"],
                           [language |-> "fea", text |-> "feature liga {"],
                           [language |-> "glyphs", text |-> ""]}}

\* the first step of the work of a call in its thread
writeBegin(self, call) ==
    CASE call.op = "putGlyph" ->
             _putGlyphBegin(self, call.glyphName, call.arg.glyph, call.arg.codePoints)
      [] call.op = "putKerning" -> _putKerningBegin(self, call.arg)
      [] call.op = "putFeatures" -> _putFeaturesBegin(self, call.arg)

\* the rest of the work of a call in its thread
writeFinish(self, call, frame) ==
    CASE call.op = "putGlyph" -> _putGlyphFinish(self, frame)
      [] call.op = "putKerning" -> _putKerningFinish(self, call.arg)
      [] call.op = "putFeatures" -> _putFeaturesFinish(self, call.arg)

\* the calls that have started and not returned
callsInFlight == {task \in TaskIds : tasks[task].pc # "idle"}

\* the calls whose work in the thread has the backend in its hands
writesInFlight ==
    {task \in TaskIds : tasks[task].pc \in {"locked", "begun", "writing", "done"}}

ConcurrentInit ==
    /\ \E file \in Files : Opened(file)
    /\ format_version = 3
    /\ gsKerning = NoKerning
    /\ kerningGroups = EmptyDict
    /\ fileKerning = NoKerning
    /\ gsFeatures = NoFeatures
    /\ writeLock = NoTask
    /\ tasks = [task \in TaskIds |-> Idle]

\* async with self._writeLock: the lock is taken at once when it is free
CallWriteOf(task, calls) ==
    /\ tasks[task].pc = "idle"
    /\ last.n + Cardinality(callsInFlight) < MaxConcurrentCalls
    /\ \E call \in calls :
          tasks' = SetKey(tasks, task,
                          [pc |-> IF writeLock = NoTask THEN "locked" ELSE "waiting",
                           call |-> call, frame |-> <<>>, result |-> Return(None)])
    /\ writeLock' = IF writeLock = NoTask THEN task ELSE writeLock
    /\ UNCHANGED <<storeVars, fontVars, last, held>>

CallWrite(task) == CallWriteOf(task, WriteCalls)

\* a waiting call gets the lock that was released
AcquireLock(task) ==
    /\ tasks[task].pc = "waiting"
    /\ writeLock = NoTask
    /\ writeLock' = task
    /\ tasks' = SetKey(tasks, task, [tasks[task] EXCEPT !.pc = "locked"])
    /\ UNCHANGED <<storeVars, fontVars, last, held>>

ThreadBegun(task, begun) ==
    /\ BecomeAll(begun.self)
    /\ tasks' = SetKey(tasks, task,
                       [pc |-> IF begun.result.err # "" THEN "done" ELSE "begun",
                        call |-> tasks[task].call,
                        frame |-> IF tasks[task].call.op = "putGlyph"
                                     /\ begun.result.err = ""
                                  THEN <<begun.frame>> ELSE <<>>,
                        result |-> begun.result])

\* runInThread: the thread takes the first step of the work
ThreadBegin(task) ==
    /\ tasks[task].pc = "locked"
    /\ ThreadBegun(task, writeBegin(Self, tasks[task].call))
    /\ UNCHANGED <<format_version, writeLock, last, held>>

\* the backend while the thread is inside _writeFontData: what the rest of the work
\* has made of it, the glyphs of the font set aside, the file as it was
insideWriteFontData(before, out) ==
    [_writeFontDataBegin(out.self) EXCEPT !.fileKerning = before.fileKerning,
                                          !.fileGlyphs = before.fileGlyphs]

\* the work of putKerning and putFeatures ends in _writeFontData, where the thread
\* stops once more
ThreadFinished(task, out) ==
    IF tasks[task].call.op # "putGlyph" /\ out.result.err = ""
    THEN /\ BecomeAll(insideWriteFontData(Self, out))
         /\ tasks' = SetKey(tasks, task,
                            [tasks[task] EXCEPT
                                !.pc = "writing",
                                !.frame = <<[originalGlyphs |-> out.self.gsGlyphs]>>,
                                !.result = out.result])
    ELSE /\ BecomeAll(out.self)
         /\ tasks' = SetKey(tasks, task,
                            [tasks[task] EXCEPT !.pc = "done", !.result = out.result])

\* the thread takes the rest of the work
ThreadFinish(task) ==
    /\ tasks[task].pc = "begun"
    /\ ThreadFinished(task, writeFinish(Self, tasks[task].call,
                                         IF tasks[task].frame = <<>> THEN None
                                         ELSE tasks[task].frame[1]))
    /\ UNCHANGED <<format_version, writeLock, last, held>>

\* the thread writes the font and puts the glyphs of the font back
ThreadWriteFontData(task) ==
    /\ tasks[task].pc = "writing"
    /\ BecomeAll(_writeFontDataEnd(Self, tasks[task].frame[1].originalGlyphs))
    /\ tasks' = SetKey(tasks, task, [tasks[task] EXCEPT !.pc = "done"])
    /\ UNCHANGED <<format_version, writeLock, last, held>>

\* the end of 'async with self._writeLock' when the lock is left to its holder if
\* the body has raised
_writeLockKeptOnRaise(holder, result) == IF result.err # "" THEN holder ELSE NoTask

\* the end of 'async with self._writeLock': the lock is released, whether the body
\* has returned or raised
_writeLockExit(holder, result) == NoTask

\* the call returns or raises what the thread has left, and the lock is released
ReturnWrite(task) ==
    /\ tasks[task].pc = "done"
    /\ Returned(tasks[task].call.op, tasks[task].call.glyphName, tasks[task].result)
    /\ writeLock' = _writeLockExit(task, tasks[task].result)
    /\ tasks' = SetKey(tasks, task, Idle)
    /\ UNCHANGED <<storeVars, fontVars, held>>

\* deleteGlyph has no await: it runs on the event loop from its first line to its
\* last, whatever the threads are doing
CallDeleteGlyph(glyphName) ==
    /\ last.n + Cardinality(callsInFlight) < MaxConcurrentCalls
    /\ Called("deleteGlyph", glyphName, deleteGlyph(Self, glyphName))
    /\ UNCHANGED <<fontVars, writeLock, tasks, held>>

\* getGlyph has no await either and takes no lock
CallGetGlyph(glyphName) ==
    /\ last.n + Cardinality(callsInFlight) < MaxConcurrentCalls
    /\ Called("getGlyph", glyphName, getGlyph(Self, glyphName))
    /\ UNCHANGED <<fontVars, writeLock, tasks, held>>

ConcurrentNext ==
    \/ \E task \in TaskIds :
          \/ CallWrite(task)
          \/ AcquireLock(task)
          \/ ThreadBegin(task)
          \/ ThreadFinish(task)
          \/ ThreadWriteFontData(task)
          \/ ReturnWrite(task)
    \/ \E glyphName \in GlyphNames :
          \/ CallDeleteGlyph(glyphName)
          \/ CallGetGlyph(glyphName)

SpecConcurrent == ConcurrentInit /\ [][ConcurrentNext]_vars

\* C2: putGlyph, putKerning, putFeatures and deleteGlyph are mutually exclusive: at
\* most one write has the backend in its hands, it holds the write lock, and
\* deleteGlyph does not run while another of them has
WritesAreMutuallyExclusive ==
    [][/\ Cardinality(writesInFlight) <= 1
       /\ \A task \in writesInFlight : writeLock = task
       /\ (last'.n = last.n + 1 /\ last'.op = "deleteGlyph")
             => writesInFlight = {} /\ writeLock = NoTask]_vars

(***************************************************************************)
(* Further properties of putGlyph and getGlyph on the round trip           *)
(***************************************************************************)
\* this step is the putGlyph of the round trip
roundTripPut == held.stage = "read" /\ held'.stage = "written"

\* the glyph that this step hands to putGlyph
roundTripPutArgument == Edit(held'.edit, held.glyph[1])

braceInSmartGlyphMessage ==
    "GlyphsApp Backend: Brace layers within smart glyphs are not yet implemented."

\* C11: putGlyph of a glyph with a glyph axis and a source whose dense font location
\* is no master's raises, and neither the raw glyph records nor the file change: no
\* brace layer is written
BraceInSmartGlyphRejected ==
    [][(/\ roundTripPut
        /\ roundTripPutArgument.axes # <<>>
        /\ braceSources(roundTripPutArgument) # {})
          => /\ last'.err # ""
             /\ rawGlyphsData' = rawGlyphsData
             /\ fileGlyphs' = fileGlyphs]_vars

\* C11 witness: a source at Weight 120 was added to a glyph with the glyph axis Height
\* and putGlyph has raised for it
BraceInSmartGlyphWasPut ==
    /\ putGlyphCalled
    /\ held.edit = "braceSource"
    /\ hasAxis(putGlyphArgument, "Height")
    /\ braceSources(putGlyphArgument) # {}
    /\ last.err = "NotImplementedError"
    /\ last.msg = braceInSmartGlyphMessage

\* the secondary layers '<layerName>^<suffix>' of the sources at no master's location
\* whose suffix is not 'background'
braceLayoutLayers(glyph) ==
    {key \in DOMAIN glyph.layers :
        \E i \in braceSources(glyph) :
            /\ StartsWith(key, glyph.sources[i].layerName \o "^")
            /\ SubSeq(key, Len(glyph.sources[i].layerName) + 2, Len(key)) # "background"}

\* C12: putGlyph of a glyph in which a source at no master's location has a secondary
\* layer whose suffix is not 'background' is rejected, whatever layers the native
\* glyph has (the claim names the error: GlyphsBackendError)
BraceLayoutLayerIsRejected ==
    [][(roundTripPut /\ braceLayoutLayers(roundTripPutArgument) # {})
          => last'.err # ""]_vars

\* this step is a call of one of the other put* operations
otherPutWasCalled == last'.n = last.n + 1 /\ last'.op \in OtherPuts

\* C13: every put* operation other than putGlyph, putKerning and putFeatures raises
\* NotImplementedError and leaves the backend as it was
OtherPutsAreNotImplemented ==
    [][otherPutWasCalled =>
          /\ last'.err = "NotImplementedError"
          /\ UNCHANGED <<storeVars, fontVars>>]_vars

glyphExists(glyphName) ==
    /\ glyphName \in DOMAIN glyphMap
    /\ glyphName \in DOMAIN glyphNameToIndex
    /\ glyphNameToIndex[glyphName] < Len(rawGlyphsData)
    /\ rawGlyphsData[glyphNameToIndex[glyphName] + 1].glyphname = glyphName

\* what getGlyph returns for the glyph when no write is running: the expansion of
\* its raw record
quietGetGlyph(glyphName) ==
    Some(gsGlyphToVariableGlyph(
            glyphName, parseGlyph(rawGlyphsData[glyphNameToIndex[glyphName] + 1])))

\* this step is a getGlyph of an existing glyph while writes are in flight, none of
\* them a putGlyph of that glyph
getGlyphBesideWrite ==
    /\ last'.n = last.n + 1
    /\ last'.op = "getGlyph"
    /\ glyphExists(last'.glyphName)
    /\ writesInFlight # {}
    /\ \A task \in writesInFlight :
          tasks[task].call.op = "putGlyph" => tasks[task].call.glyphName # last'.glyphName

\* C15: while putGlyph of another glyph, putKerning or putFeatures is in flight,
\* getGlyph of an existing glyph does not fail and returns what it returns when no
\* write is running
GetGlyphBesideWriteIsUndisturbed ==
    [][getGlyphBesideWrite =>
          /\ last'.err = ""
          /\ last'.value = quietGetGlyph(last'.glyphName).value]_vars

(***************************************************************************)
(* The store after a putGlyph                                              *)
(***************************************************************************)
\* this step is a putGlyph that has returned
putGlyphHasReturned ==
    /\ last'.n = last.n + 1
    /\ last'.op = "putGlyph"
    /\ last'.err = ""

\* C16: when putGlyph(name, ...) has returned, name is not among the parsed glyphs,
\* and the next getGlyph(name) expands the raw record that was written: it answers
\* what a handle opened from the written file answers
PutGlyphIsReadBack ==
    [][putGlyphHasReturned =>
          /\ last'.glyphName \notin parsedGlyphNames'
          /\ getGlyph(Self', last'.glyphName).result
                = getGlyph(_setupFromPath(fileGlyphs'), last'.glyphName).result]_vars

\* C16 witness: putGlyph has returned for a glyph that was read before, and the
\* native glyph of that read is not the glyph of the record that was written
ReadGlyphWasPutAnew ==
    /\ last.op = "putGlyph"
    /\ last.err = ""
    /\ last.glyphName \notin parsedGlyphNames
    /\ LET index == glyphNameToIndex[last.glyphName]
       IN  /\ gsGlyphs[index + 1].name = last.glyphName
           /\ gsGlyphs[index + 1].layers # <<>>
           /\ gsGlyphs[index + 1] # parseGlyph(rawGlyphsData[index + 1])

\* the names of the raw glyph records
rawGlyphNames == {rawGlyphsData[i].glyphname : i \in DOMAIN rawGlyphsData}

\* C17: after a call of getGlyph, putGlyph or deleteGlyph that has returned, every
\* glyph name has one raw record, the name-to-index table has the position of that
\* record, there are as many native glyphs as raw records, and the glyph map has the
\* names of the records
RawStoreIsConsistent ==
    (last.n > 0 /\ last.err = "") =>
        /\ \A i, j \in DOMAIN rawGlyphsData :
              rawGlyphsData[i].glyphname = rawGlyphsData[j].glyphname => i = j
        /\ DOMAIN glyphNameToIndex = rawGlyphNames
        /\ \A name \in DOMAIN glyphNameToIndex :
              /\ glyphNameToIndex[name] < Len(rawGlyphsData)
              /\ rawGlyphsData[glyphNameToIndex[name] + 1].glyphname = name
        /\ Len(rawGlyphsData) = Len(gsGlyphs)
        /\ DOMAIN glyphMap = rawGlyphNames

(***************************************************************************)
(* The shape of the glyphs getGlyph returns                                *)
(***************************************************************************)
\* every source has its layer, and every other layer is <layerName of a source>^<suffix>
wellFormed(glyph) ==
    /\ sourcesWithoutLayer(glyph) = {}
    /\ layersWithoutSource(glyph) = {}

\* C18: every glyph getGlyph returns, from the file and after a successful putGlyph,
\* is well formed: each source's layerName is a key of its layers and each other
\* layer key is <layerName of one of its sources>^<suffix>
GotGlyphIsWellFormed == gotGlyph => wellFormed(last.value[1])

(***************************************************************************)
(* The native layers a putGlyph leaves                                     *)
(***************************************************************************)
\* the layers of the glyph that are no background of another layer
layersDrawnInFront(glyph) ==
    {key \in DOMAIN glyph.layers :
        ~EndsWith(key, "^background") /\ ~EndsWith(key, "/background")}

\* the native layers of the raw record of the glyph
rawLayers(glyphName) == rawGlyphsData[glyphNameToIndex[glyphName] + 1].layers

\* C19: after a successful putGlyph the glyph has as many native layers as the
\* glyph that was put has layers that are not background layers; so two sources at
\* the same dense location are written to two different native layers
PutGlyphKeepsEveryLayer ==
    (held.stage = "written" /\ last.err = "") =>
        Len(rawLayers(held.glyphName)) = Cardinality(layersDrawnInFront(putGlyphArgument))

(***************************************************************************)
(* A new glyph with a glyph axis: putGlyph of a glyph the font does not    *)
(* have, and getGlyph of it                                                *)
(***************************************************************************)
\* the glyph axis Height from 0 to 100 with its default at one of the two
heightAxis(defaultValue) ==
    [name |-> "Height", minValue |-> 0, defaultValue |-> defaultValue, maxValue |-> 100]

\* the sources of a new glyph: for the Regular and the Bold master a source at the
\* default of Height, in the layer named by the master's id, and a source at the
\* other pole of Height, in a layer with an id of its own; for the Light master
\* the same two sources ("both"), only the first ("default"), or only a source at
\* the other pole, in the layer named by the master's id ("pole")
smartSources(defaultValue, light) ==
    LET other == ("Height" :> (100 - defaultValue))
    IN  (CASE light = "both" ->
                <<glyphSource("Light", ("Weight" :> 17), "#mL"),
                  glyphSource("Light-Height", Merge(("Weight" :> 17), other), "#u1")>>
           [] light = "default" -> <<glyphSource("Light", ("Weight" :> 17), "#mL")>>
           [] light = "pole" ->
                <<glyphSource("Light-Height", Merge(("Weight" :> 17), other), "#mL")>>)
        \o <<glyphSource("Regular", EmptyDict, "#mR"),
              glyphSource("Regular-Height", other, "#u2"),
              glyphSource("Bold", ("Weight" :> 220), "#mB"),
              glyphSource("Bold-Height", Merge(("Weight" :> 220), other), "#u3")>>

\* the glyph a caller draws from these sources, taken in this order
newSmartGlyph(glyphName, defaultValue, sources, order) ==
    [name |-> glyphName,
     axes |-> <<heightAxis(defaultValue)>>,
     sources |-> [i \in DOMAIN sources |-> sources[order[i]]],
     layers |-> [layerName \in {sources[i].layerName : i \in DOMAIN sources} |->
                    fontraLayer(0, <<>>)]]

\* the new glyphs of the model: the sources in every order, the default of the
\* glyph axis at its minimum or at its maximum
NewSmartGlyphs(glyphName) ==
    UNION {{newSmartGlyph(glyphName, defaultValue, smartSources(defaultValue, light), order) :
               order \in Permutations(DOMAIN smartSources(defaultValue, light))} :
           defaultValue \in {0, 100}, light \in {"both", "default", "pole"}}

NewGlyphInit ==
    /\ Opened(<<_getRawData(plainGlyph("alpha", FALSE))>>)
    /\ Quiet

PutNewGlyph ==
    /\ held.stage = "none"
    /\ \E glyph \in NewSmartGlyphs("beta") :
          /\ Called("putGlyph", "beta", _putGlyph(Self, "beta", glyph, <<>>))
          /\ held' = [held EXCEPT !.stage = "written", !.glyphName = "beta",
                                  !.given = <<givenGlyphAfterPut(glyph)>>]
    /\ UNCHANGED <<fontVars, writeLock, tasks>>

GetNewGlyph ==
    /\ held.stage = "written"
    /\ last.err = ""
    /\ Called("getGlyph", held.glyphName, getGlyph(Self, held.glyphName))
    /\ held' = [held EXCEPT !.stage = "reread"]
    /\ UNCHANGED <<fontVars, writeLock, tasks>>

NewGlyphNext == PutNewGlyph \/ GetNewGlyph

SpecNewGlyph == NewGlyphInit /\ [][NewGlyphNext]_vars

\* C20: the glyph axes of a glyph whose sources are at the poles of its axes, on the
\* locations of the masters, come back from putGlyph and getGlyph as they were put
\* (name, minValue, defaultValue and maxValue of each axis), in whatever order the
\* sources are
GlyphAxesRoundTrip ==
    (held.stage = "reread" /\ gotGlyph) => last.value[1].axes = held.given[1].axes

(***************************************************************************)
(* The names of the sources on the round trip                              *)
(***************************************************************************)
\* the put of the round trip has succeeded and the glyph was read again
rereadAfterPut == held.stage = "reread" /\ gotGlyph

\* the source of the glyph in this layer has this name, if the glyph has such a source
sourceInLayerIsNamed(glyph, layerName, name) ==
    \A j \in DOMAIN glyph.sources :
        glyph.sources[j].layerName = layerName => glyph.sources[j].name = name

\* C21: every source with a non-empty name comes back from putGlyph and getGlyph
\* under the name it was written with, whatever that name is
SourceNamesRoundTrip ==
    rereadAfterPut =>
        \A i \in DOMAIN putGlyphArgument.sources :
            Truthy(putGlyphArgument.sources[i].name) =>
                sourceInLayerIsNamed(last.value[1], putGlyphArgument.sources[i].layerName,
                                     putGlyphArgument.sources[i].name)

(***************************************************************************)
(* Reading a glyph whose layers of different masters are interleaved       *)
(***************************************************************************)
\* a brace layer of this master at this Weight
braceLayerAt(layerId, masterId, weight) ==
    [extraLayer(layerId, masterId, "brace", None) EXCEPT
        !.name = "{" \o NumStr(weight) \o "}",
        !.attributes = ("coordinates" :> <<weight>>)]

\* the glyph records of the files that are read: the layers of the three masters
\* and two brace layers, each of any master, in every order
InterleavedRecords(glyphName) ==
    LET record(m1, m2) ==
            _getRawData([newGSGlyph(glyphName) EXCEPT
                !.unicodes = <<"0041">>,
                !.layers = <<masterLayer("#mL", None), masterLayer("#mR", None),
                             masterLayer("#mB", None), braceLayerAt("#x1", m1, 166),
                             braceLayerAt("#x2", m2, 120)>>])
        inOrder(rawGlyphData, order) ==
            [rawGlyphData EXCEPT !.layers = [i \in 1..5 |-> rawGlyphData.layers[order[i]]]]
    IN  {inOrder(record(m1, m2), order) :
            m1 \in masterIds, m2 \in masterIds, order \in Permutations(1..5)}

ReadInit ==
    /\ \E rawGlyphData \in InterleavedRecords("alpha") : Opened(<<rawGlyphData>>)
    /\ Quiet

ReadGlyph ==
    /\ last.n = 0
    /\ Called("getGlyph", "alpha", getGlyph(Self, "alpha"))
    /\ UNCHANGED <<fontVars, writeLock, tasks, held>>

ReadNext == ReadGlyph

SpecRead == ReadInit /\ [][ReadNext]_vars

\* the native layers of the glyph in the order in which getGlyph meets them
layersAsMet(glyphName) ==
    orderedLayers(parseGlyph(rawGlyphsData[glyphNameToIndex[glyphName] + 1]).layers)

\* the position among the layers as met of the layer this source was read from
metAt(glyphName, source) == layerIndex(layersAsMet(glyphName), source.layerName)

\* the master the layer of this source is associated with
masterOfSource(glyphName, source) ==
    layersAsMet(glyphName)[metAt(glyphName, source)].associatedMasterId

\* the position at which a layer of this master is met first
firstMet(glyphName, masterId) ==
    Min({i \in DOMAIN layersAsMet(glyphName) :
            layersAsMet(glyphName)[i].associatedMasterId = masterId})

sourcesBeforeFix(gsGlyph) ==
    readLayers(sortByMasterOrder(orderedLayers(gsGlyph.layers)),
               gsLocalAxesToFontraLocalAxes(gsGlyph).value,
               [seenLocations |-> {}, sources |-> <<>>,
                layers |-> EmptyDict, smartLocation |-> EmptyDict]).sources

\* the sources that carry this (axis, value) entry
carriers(sources, item) ==
    {i \in DOMAIN sources : item \in locItems(sources[i].location)}

\* what the post-pass may do to the sources: an entry it removes is of a font axis,
\* an entry of a glyph axis is carried by exactly the same sources, and the entry is
\* gone from every source; it adds nothing
fixedAsDescribed(before, after, glyphAxisNames) ==
    \A i \in DOMAIN before :
        /\ locItems(after[i].location) \subseteq locItems(before[i].location)
        /\ \A item \in locItems(before[i].location) \ locItems(after[i].location) :
              /\ item[1] \notin glyphAxisNames
              /\ \E k \in DOMAIN before :
                    \E other \in locItems(before[k].location) :
                        /\ other[1] \in glyphAxisNames
                        /\ carriers(before, other) = carriers(before, item)
              /\ carriers(after, item) = {}

\* the glyph of the last getGlyph as glyphsLib parses it from its raw record
parsedForLast == parseGlyph(rawGlyphsData[glyphNameToIndex[last.glyphName] + 1])

\* C23: the post-pass of getGlyph removes an entry from the source locations only if
\* its axis is a font axis and an entry of a glyph axis is carried by exactly the
\* same sources; it removes no entry of a glyph axis, and it removes an entry from
\* every source that carried it
FixSourceLocationsAsDescribed ==
    gotGlyph =>
        fixedAsDescribed(sourcesBeforeFix(parsedForLast), last.value[1].sources,
                         {last.value[1].axes[i].name : i \in DOMAIN last.value[1].axes})

(***************************************************************************)
(* The source identifiers and the value lists of getKerning                *)
(***************************************************************************)
\* getKerning has just returned
gotKerning == last.op = "getKerning" /\ last.n > 0

\* the kerning attribute of the font and the two sides behind a kerning kind
kerningAttrOfKind(kernType) ==
    IF kernType = "kern" THEN "kerning" ELSE _verticalKerningAttr(Self)

sidesOfKind(kernType) == IF kernType = "kern" THEN <<"left", "right">> ELSE <<"top", "bottom">>

\* the masters that have a non-empty kerning dict under this attribute
mastersWithKerning(kerningAttr) ==
    {masterId \in masterIds : masterKernDict(Self, kerningAttr, masterId) # EmptyDict}

\* the pairs of this master under this attribute that carry the names of this pair
nativePairsNamed(kernType, masterId, names) ==
    {pair \in kernPairs(masterKernDict(Self, kerningAttrOfKind(kernType), masterId)) :
        fontraPair(pair, GS_KERN_GROUP_PREFIXES[sidesOfKind(kernType)[1]],
                   GS_KERN_GROUP_PREFIXES[sidesOfKind(kernType)[2]]) = names}

\* the value list of a pair has one slot for each source identifier: the value of
\* the master for the pair, or None when it has none
slotsFollowSources(kernType, kerning, names) ==
    LET list == kerning.values[names[1]][names[2]]
    IN  /\ Len(list) = Len(kerning.sourceIdentifiers)
        /\ \A i \in DOMAIN list :
              LET dict == masterKernDict(Self, kerningAttrOfKind(kernType),
                                         kerning.sourceIdentifiers[i])
                  found == nativePairsNamed(kernType, kerning.sourceIdentifiers[i], names)
              IN  IF found = {} THEN list[i] = <<>>
                  ELSE \E pair \in found : list[i] = <<dict[pair[1]][pair[2]]>>

\* C24: for each kerning kind the source identifiers of getKerning are the masters
\* with a non-empty kerning dict of that kind and the default master, in the order of
\* the masters of the font, and every value list has one slot for each of them, None
\* for a master without a value for the pair
KerningSourcesAreMastersWithKerning ==
    gotKerning =>
        \A kernType \in DOMAIN last.value :
            /\ Range(last.value[kernType].sourceIdentifiers)
               = mastersWithKerning(kerningAttrOfKind(kernType)) \cup {defaultMasterID}
            /\ \A i, j \in DOMAIN last.value[kernType].sourceIdentifiers :
                  i < j => masterIndex(last.value[kernType].sourceIdentifiers[i])
                           < masterIndex(last.value[kernType].sourceIdentifiers[j])
            /\ \A names \in kernPairs(last.value[kernType].values) :
                  slotsFollowSources(kernType, last.value[kernType], names)

\* getKerning has listed the default master, which has no kerning, after a master
\* that has, and a pair with None in the slot of the default master
DefaultMasterListedWithoutKerning ==
    /\ gotKerning
    /\ "kern" \in DOMAIN last.value
    /\ defaultMasterID \notin mastersWithKerning("kerning")
    /\ last.value["kern"].sourceIdentifiers = <<"#mL", defaultMasterID>>
    /\ \E names \in kernPairs(last.value["kern"].values) :
          last.value["kern"].values[names[1]][names[2]] = << <<-40>>, <<>> >>

(***************************************************************************)
(* The native layers putGlyph keeps and deletes                            *)
(***************************************************************************)
\* the layer id of a layer info, when setupLayerInfo has not raised
layerIdOf(layerInfo) == IF layerInfo.err = "" THEN layerInfo.value.gsLayerId ELSE "<raised>"

\* the layer ids that are assigned to the layers of one source
layerIdsOfSource(variableGlyph, source, sourceInfo, gsGlyph) ==
    {layerIdOf(setupLayerInfo(source, sourceInfo, layerName, variableGlyph, gsGlyph)) :
        layerName \in {source.layerName}
                      \cup getSourceLayerNames(variableGlyph).sourceLayers[source.layerName]}

\* the layer ids that are assigned to the layers of the glyph when it is written
\* into gsGlyph
assignedLayerIds(variableGlyph, gsGlyph) ==
    UNION {layerIdsOfSource(variableGlyph, variableGlyph.sources[i],
                            _setupSourceInfo(variableGlyph.sources[i], variableGlyph,
                                             getDefaultLocation(variableGlyph.axes)).value,
                            gsGlyph) : i \in DOMAIN variableGlyph.sources}

\* the ids of the native layers of the raw record of the glyph
rawLayerIds(glyphName) ==
    {rawLayers(glyphName)[i].layerId : i \in DOMAIN rawLayers(glyphName)}

\* C25: after a successful putGlyph the native layers of the glyph are the layers
\* whose ids were assigned to the layers of the written glyph during the call: a
\* layer that was there before and was not assigned is gone, an assigned layer is
\* there
PutGlyphReplacesTheLayers ==
    (held.stage = "written" /\ last.err = "") =>
        rawLayerIds(held.glyphName)
        = assignedLayerIds(putGlyphArgument, [layers |-> rawLayers(held.glyphName)])

\* a glyph was put without its last source, and the native layer of that source,
\* which was there before, is gone
LayerOfDeletedSourceIsGone ==
    /\ held.stage = "written" /\ last.err = ""
    /\ held.edit = "sourceDeleted"
    /\ isGlyphsUUID(held.glyph[1].sources[Len(held.glyph[1].sources)].layerName)
    /\ held.glyph[1].sources[Len(held.glyph[1].sources)].layerName
       \notin rawLayerIds(held.glyphName)
    /\ rawLayerIds(held.glyphName) # {}

(***************************************************************************)
(* One call of _ensureGlyphIsParsed, step by step: the stack of its nested *)
(* calls, over every graph of component references among three glyphs      *)
(***************************************************************************)
ExpandNames == <<"alpha", "beta", "gamma">>

\* the names a component refers to: the glyphs of the font and a name the font
\* does not have
ReferredNames == Range(ExpandNames) \cup {"delta"}

\* the plain glyph with these components in the layer of the Regular master or, for
\* the glyph beta, in the background of that layer
glyphReferring(glyphName, names) ==
    LET components == [i \in DOMAIN Sorted(names) |-> [name |-> Sorted(names)[i]]]
        regular == IF glyphName = "beta"
                   THEN [masterLayer("#mR", None) EXCEPT
                            !.background = <<[paths |-> 0, components |-> components]>>]
                   ELSE [masterLayer("#mR", None) EXCEPT !.components = components]
    IN  [newGSGlyph(glyphName) EXCEPT
            !.layers = <<masterLayer("#mL", None), regular, masterLayer("#mB", None)>>]

\* the graphs of references: alpha and gamma refer to themselves, to another
\* glyph and to the missing name or to some of these, beta refers to alpha and
\* gamma or to one or none of them
ExpandGraphs ==
    {refs \in [Range(ExpandNames) -> SUBSET ReferredNames] :
        /\ refs["alpha"] \subseteq {"alpha", "beta", "delta"}
        /\ refs["beta"] \subseteq {"alpha", "gamma"}
        /\ refs["gamma"] \subseteq {"alpha", "gamma", "delta"}}

\* the call stack is empty and nothing was expanded
NotExpanding ==
    [stage |-> "none", stack |-> <<>>,
     expanded |-> [name \in Range(ExpandNames) |-> 0]]

ExpandInit ==
    /\ \E refs \in ExpandGraphs :
          LET self == _setupFromPath([i \in DOMAIN ExpandNames |->
                          _getRawData(glyphReferring(ExpandNames[i], refs[ExpandNames[i]]))])
          IN  /\ glyphMap = self.glyphMap
              /\ glyphNameToIndex = self.glyphNameToIndex
              /\ rawGlyphsData = self.rawGlyphsData
              /\ gsGlyphs = self.gsGlyphs
              /\ parsedGlyphNames = self.parsedGlyphNames
              /\ fileGlyphs = self.fileGlyphs
    /\ last = NoCall
    /\ held = NotExpanding
    /\ Quiet

\* a frame of _ensureGlyphIsParsed(glyphName): at its first line, or in the loop
\* over its sorted component names with these names still to come
frameAt(glyphName, pc, compoNames) ==
    [glyphName |-> glyphName, pc |-> pc, compoNames |-> compoNames]

\* the stack without its top frame; an empty stack ends the call
returnFrom(stack, stage) ==
    IF Len(stack) = 1 THEN [stage |-> stage, stack |-> <<>>]
    ELSE [stage |-> "expanding", stack |-> SubSeq(stack, 1, Len(stack) - 1)]

\* the test of the loop when every name is taken for a glyph of the font
componentIsAnyName(compoName) == TRUE

\* 'if compoName not in self.glyphNameToIndex: continue'
componentIsInFont(compoName) == compoName \in DOMAIN glyphNameToIndex

\* getGlyph of a glyph of the font calls _ensureGlyphIsParsed
CallEnsureGlyphIsParsed ==
    /\ held.stage = "none"
    /\ \E glyphName \in DOMAIN glyphNameToIndex :
          held' = [held EXCEPT !.stage = "expanding",
                               !.stack = <<frameAt(glyphName, "enter", <<>>)>>]
    /\ UNCHANGED <<storeVars, fontVars, writeLock, tasks, last>>

\* the first lines of _ensureGlyphIsParsed: return when the glyph is parsed, else
\* mark it, parse its record and collect the names of its components
EnterEnsureGlyphIsParsed ==
    /\ held.stage = "expanding"
    /\ held.stack[Len(held.stack)].pc = "enter"
    /\ LET glyphName == held.stack[Len(held.stack)].glyphName
           glyphIndex == glyphNameToIndex[glyphName]
           gsGlyph == parseGlyph(rawGlyphsData[glyphIndex + 1])
       IN  IF glyphName \in parsedGlyphNames
           THEN /\ held' = [held EXCEPT !.stage = returnFrom(held.stack, "returned").stage,
                                        !.stack = returnFrom(held.stack, "returned").stack]
                /\ UNCHANGED <<parsedGlyphNames, gsGlyphs>>
           ELSE IF glyphName \notin DOMAIN glyphNameToIndex
           THEN /\ held' = [held EXCEPT !.stage = "raised", !.stack = <<>>]
                /\ UNCHANGED <<parsedGlyphNames, gsGlyphs>>
           ELSE /\ parsedGlyphNames' = parsedGlyphNames \cup {glyphName}
                /\ gsGlyphs' = SetAt(gsGlyphs, glyphIndex + 1, gsGlyph)
                /\ held' = [held EXCEPT
                              !.stack = SetAt(held.stack, Len(held.stack),
                                              frameAt(glyphName, "loop",
                                                      Sorted(componentNames(gsGlyph)))),
                              !.expanded = SetKey(held.expanded, glyphName,
                                                  held.expanded[glyphName] + 1)]
    /\ UNCHANGED <<glyphMap, glyphNameToIndex, rawGlyphsData, fileGlyphs, fontVars,
                   writeLock, tasks, last>>

\* one turn of the loop over the component names: a name the font does not have is
\* skipped, for a glyph of the font _ensureGlyphIsParsed is called; the call
\* returns when no name is left
LoopEnsureGlyphIsParsed ==
    /\ held.stage = "expanding"
    /\ held.stack[Len(held.stack)].pc = "loop"
    /\ LET frame == held.stack[Len(held.stack)]
           rest == SetAt(held.stack, Len(held.stack),
                         frameAt(frame.glyphName, "loop", Tail(frame.compoNames)))
       IN  IF frame.compoNames = <<>>
           THEN held' = [held EXCEPT !.stage = returnFrom(held.stack, "returned").stage,
                                     !.stack = returnFrom(held.stack, "returned").stack]
           ELSE IF ~componentIsInFont(Head(frame.compoNames))
           THEN held' = [held EXCEPT !.stack = rest]
           ELSE held' = [held EXCEPT
                            !.stack = Append(rest, frameAt(Head(frame.compoNames),
                                                           "enter", <<>>))]
    /\ UNCHANGED <<storeVars, fontVars, writeLock, tasks, last>>

ExpandNext ==
    \/ CallEnsureGlyphIsParsed
    \/ EnterEnsureGlyphIsParsed
    \/ LoopEnsureGlyphIsParsed

\* the thread that runs the call is not stopped: a step that can be taken is taken
SpecExpand == ExpandInit /\ [][ExpandNext]_vars /\ WF_vars(ExpandNext)

\* C26: _ensureGlyphIsParsed returns after finitely many steps for every graph of
\* component references, with cycles, with glyphs that refer to themselves and with
\* names the font does not have, and it expands no glyph twice in one call
EnsureGlyphIsParsedReturns ==
    /\ [](\A glyphName \in Range(ExpandNames) : held.expanded[glyphName] <= 1)
    /\ <>(held.stage = "returned")

\* the call has returned for a glyph that refers to itself, to a glyph that refers
\* back to it and to a name the font does not have
CyclicGlyphWasExpanded ==
    /\ held.stage = "returned"
    /\ held.expanded["alpha"] = 1 /\ held.expanded["beta"] = 1
    /\ {"alpha", "beta", "delta"}
       \subseteq componentNames(parseGlyph(rawGlyphsData[glyphNameToIndex["alpha"] + 1]))
    /\ "alpha" \in componentNames(parseGlyph(rawGlyphsData[glyphNameToIndex["beta"] + 1]))

(***************************************************************************)
(* The parsed glyphs after getGlyph: the glyph and the glyphs its          *)
(* components reach                                                        *)
(***************************************************************************)
\* the glyph that the raw record of this glyph of the font is parsed to
currentGlyph(glyphName) == parseGlyph(rawGlyphsData[glyphNameToIndex[glyphName] + 1])

\* the glyphs of the font that the components of these glyphs name, in layers and
\* in backgrounds of their current raw records
componentsInFont(glyphNames) ==
    UNION {componentNames(currentGlyph(glyphName)) \cap DOMAIN glyphNameToIndex :
              glyphName \in glyphNames}

\* the glyphs of the font that are reached from these glyphs through component
\* references, the glyphs themselves included
RECURSIVE reachedThroughComponents(_)
reachedThroughComponents(glyphNames) ==
    IF componentsInFont(glyphNames) \subseteq glyphNames THEN glyphNames
    ELSE reachedThroughComponents(glyphNames \cup componentsInFont(glyphNames))

\* the glyph is in the set of parsed names and its native object is the one its
\* current raw record is parsed to
isParsedFromCurrentRecord(glyphName) ==
    /\ glyphName \in parsedGlyphNames
    /\ gsGlyphs[glyphNameToIndex[glyphName] + 1] = currentGlyph(glyphName)

\* C27: when getGlyph(name) has returned a glyph, the glyph and every glyph of the
\* font that is reached from it through component references are in the set of
\* parsed names and their native objects are built from their current raw records
ExpansionIsTransitivelyClosed ==
    gotGlyph =>
        \A glyphName \in reachedThroughComponents({last.glyphName}) :
            isParsedFromCurrentRecord(glyphName)

(***************************************************************************)
(* The ids of the native layers putGlyph writes                            *)
(***************************************************************************)
\* the identifier stashed in the custom data of the layer, None when there is none
stashedLayerId(variableGlyph, layerName) ==
    IF "com.glyphsapp.layer.layerId" \in DOMAIN variableGlyph.layers[layerName].customData
    THEN variableGlyph.layers[layerName].customData["com.glyphsapp.layer.layerId"]
    ELSE None

\* the id by the order of preference: the stashed identifier, else the master id
\* when one is offered, else the layer name when it looks like a native identifier,
\* else the hash of '<glyphName>/<layerName>'
layerIdByPreference(variableGlyph, layerName, masterId) ==
    IF stashedLayerId(variableGlyph, layerName) # None
    THEN stashedLayerId(variableGlyph, layerName)
    ELSE IF masterId # None THEN masterId
    ELSE IF isGlyphsUUID(layerName) THEN layerName
    ELSE sha1uuid(variableGlyph.name \o "/" \o layerName)

\* the id that is preferred for the primary layer of the source: the master id is
\* offered when the source is at the location of a master and the glyph has no axes
primaryLayerId(variableGlyph, source, sourceInfo) ==
    layerIdByPreference(variableGlyph, source.layerName,
                        IF sourceInfo.isSmartComponentLayer THEN None
                        ELSE sourceInfo.masterId)

\* the id that is preferred for a further layer of the source: a background takes
\* the id of the layer it lies behind, and '<primary>^background' is offered the
\* master id
secondaryLayerId(variableGlyph, layerName, sourceInfo) ==
    IF EndsWith(layerName, "^background")
    THEN layerIdByPreference(variableGlyph, SubSeq(layerName, 1, Len(layerName) - 11),
                             sourceInfo.masterId)
    ELSE IF EndsWith(layerName, "/background")
    THEN layerIdByPreference(variableGlyph, SubSeq(layerName, 1, Len(layerName) - 11), None)
    ELSE layerIdByPreference(variableGlyph, layerName, None)

\* the ids that are preferred for the layers of one source
preferredLayerIdsOfSource(variableGlyph, source, sourceInfo) ==
    {primaryLayerId(variableGlyph, source, sourceInfo)}
    \cup {secondaryLayerId(variableGlyph, layerName, sourceInfo) :
             layerName \in getSourceLayerNames(variableGlyph).sourceLayers[source.layerName]}

preferredLayerIds(variableGlyph) ==
    UNION {preferredLayerIdsOfSource(variableGlyph, variableGlyph.sources[i],
                                     _setupSourceInfo(variableGlyph.sources[i], variableGlyph,
                                                      getDefaultLocation(variableGlyph.axes)).value)
              : i \in DOMAIN variableGlyph.sources}

primaryLayerIdHashed(variableGlyph, source, sourceInfo) ==
    IF stashedLayerId(variableGlyph, source.layerName) # None
    THEN stashedLayerId(variableGlyph, source.layerName)
    ELSE IF sourceInfo.masterId # None THEN sourceInfo.masterId
    ELSE IF isGlyphsUUID(source.layerName)
    THEN sha1uuid(variableGlyph.name \o "/" \o source.layerName)
    ELSE None

MaxPackageCalls == 3

PackageGlyphNames == {"alpha", "beta", "Gamma"}

UpperCaseLetters == {"A", "B", "G"}

\* userNameToFileName(glyphName, suffix=".glyph") for names of letters: an upper
\* case letter is followed by "_"
RECURSIVE userNameToFileName(_)
userNameToFileName(userName) ==
    IF userName = "" THEN ".glyph"
    ELSE (IF Head(userName) \in UpperCaseLetters
          THEN Head(userName) \o "_" ELSE Head(userName))
         \o userNameToFileName(Tail(userName))


\* fontinfo.plist of the packages of the model
FontInfo == [familyName |-> "Family", glyphs |-> <<>>]

\* a package: fontinfo.plist, order.plist and the files of glyphs/
packageOf(order, rawGlyphs) ==
    [fontinfo |-> FontInfo,
     order |-> order,
     glyphs |-> [fileName \in {userNameToFileName(rawGlyphs[i].glyphname) :
                                  i \in DOMAIN rawGlyphs} |->
                    rawGlyphs[CHOOSE i \in DOMAIN rawGlyphs :
                                 userNameToFileName(rawGlyphs[i].glyphname) = fileName]]]

\* GlyphsPackageBackend._loadFiles: the records of the glyph files, those that
\* order.plist names in its order, then the others by name
_loadFilesOfPackage(package) ==
    LET named(glyphName) == \E f \in DOMAIN package.glyphs :
                                 package.glyphs[f].glyphname = glyphName
        recordOf(glyphName) == package.glyphs[CHOOSE f \in DOMAIN package.glyphs :
                                    package.glyphs[f].glyphname = glyphName]
        glyphNameToIndex_ == [n \in Range(package.order) |->
                                 CHOOSE i \in DOMAIN package.order :
                                    /\ package.order[i] = n
                                    /\ \A j \in DOMAIN package.order :
                                          package.order[j] = n => j <= i]
        inOrder == [i \in DOMAIN package.order |->
                       IF named(package.order[i]) /\ glyphNameToIndex_[package.order[i]] = i
                       THEN <<recordOf(package.order[i])>> ELSE <<>>]
        others == Sorted({package.glyphs[f].glyphname : f \in DOMAIN package.glyphs}
                         \ Range(package.order))
    IN  Flatten(inOrder) \o [i \in DOMAIN others |-> recordOf(others[i])]

\* _setupFromPath of a package
_setupFromPackage(package) ==
    [setupFromFile(_loadFilesOfPackage(package), 3, NoKerning) EXCEPT !.fileGlyphs = package]

\* GlyphsPackageBackend._updateGlyphOrder
_updateGlyphOrder(self, package) ==
    [package EXCEPT !.order = [i \in DOMAIN self.rawGlyphsData |->
                                  self.rawGlyphsData[i].glyphname]]

\* GlyphsPackageBackend._writeRawGlyph: the file of the glyph is written from its
\* raw record, order.plist when the glyph is new
_writeRawGlyphOfPackage(self, package, glyphName, isNewGlyph) ==
    LET written == [package EXCEPT !.glyphs =
                       SetKey(@, userNameToFileName(glyphName),
                              self.rawGlyphsData[self.glyphNameToIndex[glyphName] + 1])]
    IN  IF isNewGlyph THEN _updateGlyphOrder(self, written) ELSE written

\* _putGlyph of the package backend: _putGlyph with the _writeRawGlyph of the
\* package in the place of the one that writes the whole file
_putGlyphOfPackage(self, glyphName, glyph, codePoints) ==
    LET out == _putGlyph(self, glyphName, glyph, codePoints)
    IN  IF out.result.err # ""
        THEN [self |-> [out.self EXCEPT !.fileGlyphs = self.fileGlyphs],
              result |-> out.result]
        ELSE [self |-> [out.self EXCEPT !.fileGlyphs =
                           _writeRawGlyphOfPackage(out.self, self.fileGlyphs, glyphName,
                                                   glyphByName(self.gsGlyphs, glyphName) = 0)],
              result |-> out.result]

\* the packages the backend is opened from: alpha and beta, in either order or
\* without an order
Packages ==
    {packageOf(order, <<_getRawData(plainGlyph("alpha", TRUE)),
                        _getRawData(plainGlyph("beta", FALSE))>>) :
        order \in {<<"alpha", "beta">>, <<"beta", "alpha">>, <<>>}}

PackageInit ==
    /\ \E package \in Packages :
          LET self == _setupFromPackage(package)
          IN  /\ glyphMap = self.glyphMap
              /\ glyphNameToIndex = self.glyphNameToIndex
              /\ rawGlyphsData = self.rawGlyphsData
              /\ gsGlyphs = self.gsGlyphs
              /\ parsedGlyphNames = self.parsedGlyphNames
              /\ fileGlyphs = self.fileGlyphs
    /\ last = NoCall
    /\ held = NothingHeld
    /\ Quiet

PackageGetGlyph(glyphName) ==
    /\ last.n < MaxPackageCalls
    /\ Called("getGlyph", glyphName, getGlyph(Self, glyphName))
    /\ UNCHANGED <<fontVars, writeLock, tasks, held>>

PackagePutGlyph(glyphName) ==
    /\ last.n < MaxPackageCalls
    /\ \E arg \in PutArguments(glyphName) :
          Called("putGlyph", glyphName,
                 _putGlyphOfPackage(Self, glyphName, arg.glyph, arg.codePoints))
    /\ UNCHANGED <<fontVars, writeLock, tasks, held>>

PackageNext ==
    \E glyphName \in PackageGlyphNames :
        \/ PackageGetGlyph(glyphName)
        \/ PackagePutGlyph(glyphName)

SpecPackage == PackageInit /\ [][PackageNext]_vars

\* the files of the package other than the file of this glyph keep their content
otherGlyphFilesKept(glyphName) ==
    \A fileName \in DOMAIN fileGlyphs.glyphs \ {userNameToFileName(glyphName)} :
        /\ fileName \in DOMAIN fileGlyphs'.glyphs
        /\ fileGlyphs'.glyphs[fileName] = fileGlyphs.glyphs[fileName]

\* C29: in a package, a putGlyph that returns writes the file of its glyph only:
\* fontinfo.plist and the files of the other glyphs keep their content; order.plist
\* keeps its content when the glyph was there before the call, and is rewritten
\* with the new name as its last entry when the glyph is new
PutGlyphWritesItsOwnFile ==
    [][(last'.n # last.n /\ last'.op = "putGlyph" /\ last'.err = "") =>
          /\ fileGlyphs'.fontinfo = fileGlyphs.fontinfo
          /\ otherGlyphFilesKept(last'.glyphName)
          /\ IF last'.glyphName \in DOMAIN glyphMap
             THEN fileGlyphs'.order = fileGlyphs.order
             ELSE /\ fileGlyphs'.order # <<>>
                  /\ fileGlyphs'.order[Len(fileGlyphs'.order)] = last'.glyphName
                  /\ fileGlyphs'.order
                     = [i \in DOMAIN rawGlyphsData' |-> rawGlyphsData'[i].glyphname]]_vars

(***************************************************************************)
(* The write lock after a write that raises                                *)
(***************************************************************************)
\* where each task is in its call
pcs == [task \in TaskIds |-> tasks[task].pc]

\* the event loop runs every task that can go on and a thread is not stopped for
\* ever: a step of a call that has started is taken when it stays possible. No
\* caller has to call.
ConcurrentFairness ==
    \A task \in TaskIds :
        /\ WF_pcs(AcquireLock(task))
        /\ WF_pcs(ThreadBegin(task))
        /\ WF_pcs(ThreadFinish(task))
        /\ WF_pcs(ThreadWriteFontData(task))
        /\ WF_pcs(ReturnWrite(task))

\* the writes of the fair specification: a putGlyph that raises, of a glyph with a
\* source whose layer is missing, a putKerning that raises, and a putFeatures that
\* raises and one that returns
FairWriteCalls ==
    {[op |-> "putGlyph", glyphName |-> "alpha",
      arg |-> [glyph |-> addSourceWithoutLayer(asRead(plainGlyph("alpha", FALSE))),
               codePoints |-> <<65>>]]}
    \cup {call \in WriteCalls :
            \/ call.op = "putKerning" /\ "vkrn" \in DOMAIN call.arg
            \/ call.op = "putFeatures" /\ call.arg.language = "fea"}

CallFairWrite(task) == CallWriteOf(task, FairWriteCalls)

ConcurrentFairNext ==
    \/ \E task \in TaskIds :
          \/ CallFairWrite(task)
          \/ AcquireLock(task)
          \/ ThreadBegin(task)
          \/ ThreadFinish(task)
          \/ ThreadWriteFontData(task)
          \/ ReturnWrite(task)
    \/ \E glyphName \in GlyphNames :
          \/ CallDeleteGlyph(glyphName)
          \/ CallGetGlyph(glyphName)

SpecConcurrentFair == ConcurrentInit /\ [][ConcurrentFairNext]_vars /\ ConcurrentFairness

\* a write has just raised
writeRaised ==
    /\ last.op \in {"putGlyph", "putKerning", "putFeatures"}
    /\ last.err # ""

\* C30: when putGlyph, putKerning or putFeatures raises, the write lock is free
\* afterwards, and every write that has started, waiting for the lock or holding
\* it, comes to its end, returning or raising
WriteLockIsReleasedOnRaise ==
    /\ [][(last'.n # last.n /\ writeRaised') => writeLock' = NoTask]_vars
    /\ \A task \in TaskIds : (tasks[task].pc # "idle") ~> (tasks[task].pc = "idle")

\* a write has raised and left the lock free while another write is waiting for it
WaitingWriteAfterRaise ==
    /\ writeRaised
    /\ writeLock = NoTask
    /\ \E task \in TaskIds : tasks[task].pc = "waiting"

====
